---- MODULE Spec2Model ----
(***************************************************************************)
(* Model of the hashes.com API client (src/hashes_client.py) and of the    *)
(* job refresh of its GUI (src/hashes_gui.py).                             *)
(*                                                                         *)
(* SpecDownload : HashesClient.download_left_lists / _stream_download,     *)
(*                one step per loop iteration, remote server, local disk   *)
(*                and progress callback as nondeterministic environment.   *)
(*                                                                         *)
(* SpecRequest  : set_api_key, _request_json and the operations that need  *)
(*                a credential, the calling thread one step per block of   *)
(*                _request_json, set_api_key free to run in between.       *)
(*                                                                         *)
(* SpecCache    : get_conversion_rates and convert_to_usd with one caller, *)
(*                the clock and the /conversion server as environment.     *)
(*                                                                         *)
(* SpecCacheConc: two worker threads in get_conversion_rates, one step per *)
(*                read or store of the cache fields.                       *)
(*                                                                         *)
(* SpecJobs     : get_jobs, its filters and its sort, called with both     *)
(*                values of the reverse flag on one server list.           *)
(*                                                                         *)
(* SpecLookup   : lookup_hashes on batches around the limit of 250.        *)
(*                                                                         *)
(* SpecPublic   : the operations that need no credential and the download  *)
(*                request, next to get_balance, which needs one.           *)
(*                                                                         *)
(* SpecAlgorithms: fetch_and_update_algorithms_file, the /algorithms       *)
(*                server and the file system as environment.               *)
(*                                                                         *)
(* SpecGui      : refresh_jobs and _run_background of src/hashes_gui.py,   *)
(*                the worker threads and the Tk main loop, with weak       *)
(*                fairness of the threads and of the main loop.            *)
(*                                                                         *)
(* Job field values are written as JSON text ("1", "x"); a job is a TLA+   *)
(* function whose DOMAIN is the set of keys present.  A byte of the        *)
(* destination file is the pair <<job position, offset in that job's       *)
(* stream>>, so that the provenance of every byte on disk is visible.      *)
(***************************************************************************)
EXTENDS Integers, Sequences, FiniteSets, TLC

\* ------------------------------------------------------------------ bounds
MaxJobs == 2        \* longest batch handed to download_left_lists
MaxChunks == 2      \* chunks iter_content yields for one job
MaxChunkLen == 1    \* longest chunk, in bytes
MaxCalls == 1       \* client calls made in one behaviour of SpecRequest
MaxTicks == 4       \* the clock advances by at most this many 20 s steps
MaxFetches == 2     \* /conversion requests issued in one behaviour
MaxRows == 3        \* longest job list the server answers /jobs with
MaxListings == 2    \* get_jobs calls made in one behaviour of SpecJobs
MaxAlgs == 3        \* longest list the server answers /algorithms with

\* ------------------------------------------------------------ python helpers
\* dict.get(k, default)
Get(d, k, default) == IF k \in DOMAIN d THEN d[k] ELSE default

\* int(v) for the id values of the model; it raises ValueError on other text
IntTable == [v \in {"0", "1", "2", "3"} |->
               CASE v = "0" -> 0 [] v = "1" -> 1 [] v = "2" -> 2 [] v = "3" -> 3]
IntRaises(v) == v \notin DOMAIN IntTable
IntOf(v) == IntTable[v]

RECURSIVE SumSeq(_)
SumSeq(s) == IF s = <<>> THEN 0 ELSE Head(s) + SumSeq(Tail(s))

RECURSIVE Flatten(_)
Flatten(ss) == IF ss = <<>> THEN <<>> ELSE Head(ss) \o Flatten(Tail(ss))

\* ------------------------------------------------------------------ inputs
\* Job records as the /jobs endpoint (or any caller) may hand them over:
\* with a left list, with an empty one, without the key, and with an id
\* that int() rejects.
JobPool == { [id |-> "1", leftList |-> "/a"],
             [id |-> "2", leftList |-> ""],
             [id |-> "3"],
             [id |-> "x", leftList |-> "/b"],
             [id |-> "x", leftList |-> ""] }

RECURSIVE SeqsUpTo(_, _)
SeqsUpTo(S, n) == IF n = 0 THEN {<<>>}
                  ELSE LET shorter == SeqsUpTo(S, n - 1)
                       IN shorter \cup {Append(s, x) : s \in shorter, x \in S}

JobLists == SeqsUpTo(JobPool, MaxJobs)

StaleByte == <<0, 1>>
InitialDisks == { [exists |-> FALSE, data |-> <<>>],
                  [exists |-> TRUE, data |-> <<StaleByte>>] }

\* ------------------------------------------------------------------- state
VARIABLES
    pc,             \* position in download_left_lists
    jobs,           \* argument jobs
    on_progress,    \* TRUE when a callback was supplied
    disk,           \* the destination path: exists / data
    index,          \* loop variable of enumerate(jobs, start=1)
    bytes_written,  \* local
    failed,         \* local: sequence of <<job id, message>>
    append,         \* local
    downloaded,     \* local of _stream_download
    nchunks,        \* chunks iter_content has yielded for the current job
    exc,            \* exception that left download_left_lists ("" = none)
    log             \* history of what the call did (sleeps, requests, opens,
                    \* writes, callbacks, completed jobs, recorded failures)

dlvars == <<pc, jobs, on_progress, disk, index, bytes_written, failed, append,
            downloaded, nchunks, exc, log>>

Ev(ev, i, m, d) == [ev |-> ev, i |-> i, m |-> m, d |-> d, t |-> Len(jobs)]

DOWNLOAD_DELAY_BETWEEN_REQUESTS == 400   \* milliseconds

InitDownload ==
    /\ pc = "idle"
    /\ jobs = <<>>
    /\ on_progress = FALSE
    /\ disk \in InitialDisks
    /\ index = 0
    /\ bytes_written = 0
    /\ failed = <<>>
    /\ append = FALSE
    /\ downloaded = 0
    /\ nchunks = 0
    /\ exc = ""
    /\ log = <<>>

\* --------------------------------------------------- download_left_lists
\* lines 128-133: the empty-list check and the locals
EmptyJobs_Unchecked(js) == FALSE
EmptyJobs(js) == js = <<>>

Call ==
    /\ pc = "idle"
    /\ \E js \in JobLists, cb \in BOOLEAN :
        /\ jobs' = js
        /\ on_progress' = cb
        /\ IF EmptyJobs(js)
           THEN /\ pc' = "raised"
                /\ exc' = "HashesApiError: No jobs were selected for download."
                /\ index' = index
           ELSE /\ pc' = "loop"
                /\ exc' = exc
                /\ index' = 1
    /\ bytes_written' = 0
    /\ failed' = <<>>
    /\ append' = FALSE
    /\ UNCHANGED <<disk, downloaded, nchunks, log>>

\* str(job.get("leftList", ""))
UrlPath(job) == Get(job, "leftList", "")

\* line 139
NeedsDelay(i) == i > 1

\* except clause, line 152: the exception types the batch catches
Caught == {"HashesApiError", "OSError", "RequestException"}

\* failed.append((int(job.get("id", 0)), msg)) and on to the next job;
\* int() raising ValueError leaves download_left_lists.
RecordFailure(msg, lg) ==
    LET v == Get(jobs[index], "id", "0") IN
    IF IntRaises(v)
    THEN /\ pc' = "raised"
         /\ exc' = "ValueError"
         /\ log' = lg
         /\ UNCHANGED <<failed, index>>
    ELSE /\ pc' = "loop"
         /\ failed' = Append(failed, <<IntOf(v), msg>>)
         /\ index' = index + 1
         /\ log' = Append(lg, Ev("fail", index, msg, 0))
         /\ exc' = exc

\* an exception of the given type raised while the current job is processed:
\* line 152 turns the Caught ones into a failure entry, any other leaves
\* download_left_lists.
Handle(type, msg, lg) ==
    IF type \in Caught
    THEN RecordFailure(msg, lg)
    ELSE /\ pc' = "raised"
         /\ exc' = type
         /\ log' = lg
         /\ UNCHANGED <<failed, index>>

\* line 154
Return ==
    /\ pc = "loop"
    /\ index > Len(jobs)
    /\ pc' = "returned"
    /\ UNCHANGED <<jobs, on_progress, disk, index, bytes_written, failed,
                   append, downloaded, nchunks, exc, log>>

\* lines 135-138: a job without a left list
SkipJob ==
    /\ pc = "loop"
    /\ index <= Len(jobs)
    /\ UrlPath(jobs[index]) = ""
    /\ RecordFailure("No left list URL", log)
    /\ UNCHANGED <<jobs, on_progress, disk, bytes_written, append,
                   downloaded, nchunks>>

\* lines 139-142: the delay, then into _stream_download
StartJob ==
    /\ pc = "loop"
    /\ index <= Len(jobs)
    /\ UrlPath(jobs[index]) # ""
    /\ log' = IF NeedsDelay(index)
              THEN Append(log, Ev("sleep", index, "", DOWNLOAD_DELAY_BETWEEN_REQUESTS))
              ELSE log
    /\ pc' = "get"
    /\ UNCHANGED <<jobs, on_progress, disk, index, bytes_written, failed,
                   append, downloaded, nchunks, exc>>

\* ------------------------------------------------------ _stream_download
\* lines 166-174: session.get, raise_for_status, Content-Length
\*   "ok"                the response arrived with a 2xx status
\*   "RequestException"  connection error, timeout or non-2xx status
\*   "ValueError"        Content-Length is not a number: int() raises
GetOutcomes == {"ok", "RequestException", "ValueError"}

SendGet ==
    /\ pc = "get"
    /\ \E o \in GetOutcomes :
        LET lg == Append(log, Ev("get", index, "", 0)) IN
        CASE o = "ok" ->
                /\ pc' = "open"
                /\ log' = lg
                /\ UNCHANGED <<failed, index, exc>>
          [] o = "RequestException" ->
                \* line 187 wraps it in HashesApiError
                Handle("HashesApiError", "Failed downloading", lg)
          [] o = "ValueError" ->
                \* neither line 185 nor line 187 matches it
                Handle("ValueError", "", lg)
    /\ downloaded' = 0
    /\ nchunks' = 0
    /\ UNCHANGED <<jobs, on_progress, disk, bytes_written, append>>

\* line 175
OpenMode_AlwaysAppend(app) == "ab"
OpenMode(app) == IF app THEN "ab" ELSE "wb"

\* line 176: destination.open(mode)
OpenFile ==
    /\ pc = "open"
    /\ \E ok \in BOOLEAN :
        LET mode == OpenMode(append) IN
        IF ok
        THEN /\ disk' = IF mode = "wb"
                        THEN [exists |-> TRUE, data |-> <<>>]
                        ELSE [exists |-> TRUE, data |-> disk.data]
             /\ log' = Append(log, Ev("open", index, mode, 0))
             /\ pc' = "iter"
             /\ UNCHANGED <<failed, index, exc>>
        ELSE \* OSError: line 185 wraps it, line 152 catches it
             /\ disk' = disk
             /\ Handle("HashesApiError", "Failed writing file", log)
    /\ UNCHANGED <<jobs, on_progress, bytes_written, append, downloaded, nchunks>>

\* line 150: bytes_written += n
AddBytes_Overwrite(total, n) == n
AddBytes(total, n) == total + n

\* the bytes of the current job's stream at offsets from+1 .. from+n
StreamBytes(i, from, n) == [k \in 1..n |-> <<i, from + k>>]

\* line 181-183: the count handed to the callback
Reported_BeforeAdd(before, len) == before
Reported(before, len) == before + len

\* lines 177-183: one turn of the iter_content loop
\*   o = "end"    the stream is exhausted: return downloaded (line 184)
\*   o = "reqerr" iter_content raises a RequestException in mid-stream
\*   o = "chunk"  a chunk of c bytes; w of them reach the file (w < c: the
\*                write raises OSError); cbr: the callback raises an
\*                exception that is none of the Caught ones
Iterate ==
    /\ pc = "iter"
    /\ \E o \in {"end", "reqerr", "chunk"}, c \in 0..MaxChunkLen,
          w \in 0..MaxChunkLen, cbr \in BOOLEAN :
        /\ o # "chunk" => (c = 0 /\ w = 0 /\ ~cbr)
        /\ o = "chunk" => nchunks < MaxChunks
        /\ w <= c
        /\ cbr => (on_progress /\ c > 0 /\ w = c)
        /\ CASE o = "end" ->
                  \* lines 150-151
                  /\ bytes_written' = AddBytes(bytes_written, downloaded)
                  /\ append' = TRUE
                  /\ index' = index + 1
                  /\ pc' = "loop"
                  /\ log' = Append(log, Ev("ok", index, "", downloaded))
                  /\ UNCHANGED <<disk, downloaded, nchunks, failed, exc>>
             [] o = "reqerr" ->
                  /\ Handle("HashesApiError", "Failed downloading", log)
                  /\ UNCHANGED <<disk, downloaded, nchunks, bytes_written, append>>
             [] o = "chunk" /\ c = 0 ->
                  \* line 178-179: an empty chunk is skipped
                  /\ nchunks' = nchunks + 1
                  /\ UNCHANGED <<disk, downloaded, bytes_written, append,
                                 failed, index, pc, exc, log>>
             [] o = "chunk" /\ c > 0 /\ w < c ->
                  \* output.write raises OSError after w bytes
                  /\ disk' = [disk EXCEPT !.data = @ \o StreamBytes(index, downloaded, w)]
                  /\ nchunks' = nchunks + 1
                  /\ Handle("HashesApiError", "Failed writing file",
                            Append(log, Ev("write", index, "short", w)))
                  /\ UNCHANGED <<downloaded, bytes_written, append>>
             [] o = "chunk" /\ c > 0 /\ w = c ->
                  LET lgw == Append(log, Ev("write", index, "full", c))
                      lgc == IF on_progress
                             THEN Append(lgw, Ev("cb", index, "", Reported(downloaded, c)))
                             ELSE lgw
                  IN
                  /\ disk' = [disk EXCEPT !.data = @ \o StreamBytes(index, downloaded, c)]
                  /\ downloaded' = downloaded + c
                  /\ nchunks' = nchunks + 1
                  /\ IF cbr
                     THEN Handle("RuntimeError", "", lgc)
                     ELSE /\ log' = lgc
                          /\ UNCHANGED <<pc, exc, failed, index>>
                  /\ UNCHANGED <<bytes_written, append>>
    /\ UNCHANGED <<jobs, on_progress>>

\* ======================================================================
\* Transport: set_api_key, _request_json and the authenticated operations
\* ======================================================================
\* Text is a sequence of one-character strings, so that strip() is computed.
IsSpace(c) == c = " "

RECURSIVE LStrip(_)
LStrip(t) == IF t # <<>> /\ IsSpace(Head(t)) THEN LStrip(Tail(t)) ELSE t

RECURSIVE RStrip(_)
RStrip(t) == IF t # <<>> /\ IsSpace(t[Len(t)])
             THEN RStrip(SubSeq(t, 1, Len(t) - 1)) ELSE t

\* str.strip()
Strip(t) == RStrip(LStrip(t))

\* what the GUI entry field (or the config file) may hold
RawKeys == { <<>>, <<" ", " ">>, <<" ", "k">>, <<"j", " ">> }

\* str.upper() on the method names of the model
Methods == {"GET", "get", "POST"}
Upper(m) == CASE m = "get" -> "GET" [] m = "post" -> "POST" [] OTHER -> m

\* A value held in a params/data container: a text or a list of texts.
Scalar(t) == [isList |-> FALSE, items |-> <<t>>]
ListVal(ts) == [isList |-> TRUE, items |-> ts]

\* A container object: None, a dict (ordered <<key, value>> pairs with
\* distinct keys) or a list of <<key, value>> tuples.
NoneC == [kind |-> "none", items |-> <<>>]
Dict(items) == [kind |-> "dict", items |-> items]
List(items) == [kind |-> "list", items |-> items]

\* truth value of a container (None and empty containers are falsy)
Truthy(c) == c.kind # "none" /\ c.items # <<>>

HasKey(c, k) == \E n \in 1..Len(c.items) : c.items[n][1] = k
Lookup(c, k) == c.items[CHOOSE n \in 1..Len(c.items) : c.items[n][1] = k][2]

\* d[k] = v on a dict
DictSet(c, k, v) ==
    IF HasKey(c, k)
    THEN [c EXCEPT !.items = [n \in 1..Len(c.items) |->
                                IF c.items[n][1] = k THEN <<k, v>> ELSE c.items[n]]]
    ELSE [c EXCEPT !.items = Append(c.items, <<k, v>>)]

\* dict(x or {}) / dict(x): a new dict with the items of x
DictOf(c) == Dict(c.items)

\* the containers a caller may pass to _request_json
ParamChoices == { NoneC, Dict(<<>>),
                  Dict(<< <<"hash", Scalar(<<"h">>)>> >>),
                  Dict(<< <<"key", Scalar(<<"o">>)>> >>) }
DataChoices == { NoneC,
                 Dict(<< <<"hashes[]", ListVal(<< <<"h">> >>)>> >>),
                 List(<< <<"a", Scalar(<<"h">>)>> >>) }

\* what lookup_hashes may be given
LookupInputs == { <<>>, << <<" ">>, <<>> >>, << <<" ", "h">>, <<"g">> >> }

VARIABLES
    api_key,    \* self.api_key
    raw_key,    \* the string last given to __init__ / set_api_key
    rpc,        \* position of the calling thread in _request_json
    rargs,      \* arguments of the call in progress (or of the last call)
    heap,       \* objects: P, D the caller's params and data;
                \*          rp, rd the objects _request_json creates
    rpRef,      \* object request_params is bound to
    rdRef,      \* object request_data is bound to
    seen,       \* credential read by the check of line 199, and the raw
                \* string it came from
    sent,       \* requests handed to session.request, in order
    rerr,       \* how the last call ended: "" (running), "ok" or the message
    ncalls,     \* calls started
    resp,       \* what session.request / response.json() produced
    rret        \* the payload _request_json returned (NoPayload: none)

rqvars == <<api_key, raw_key, rpc, rargs, heap, rpRef, rdRef, seen, sent,
            rerr, ncalls, resp, rret>>

\* A decoded JSON body: its kind and, for an object, its members as
\* <<name, value>> pairs, every value written as JSON text.
Json(kind, members) == [kind |-> kind, members |-> members]
NoPayload == Json("none", {})

\* payload.get(name, default)
JGet(p, name, default) ==
    IF \E m \in p.members : m[1] = name
    THEN (CHOOSE m \in p.members : m[1] = name)[2]
    ELSE default

\* bodies a 2xx response may carry
Payloads ==
    { Json("array", {}),
      Json("object", {}),
      Json("object", {<<"success", "true">>, <<"list", "[]">>}),
      Json("object", {<<"success", "false">>}),
      Json("object", {<<"success", "false">>, <<"message", "\"bad key\"">>}),
      Json("object", {<<"success", "0">>, <<"message", "\"bad key\"">>}) }

\* str(v) of a decoded JSON value
PyStr(v) == CASE v = "\"bad key\"" -> "bad key"
              [] v = "null" -> "None"
              [] OTHER -> v

\* outcomes of lines 219-227
\*   "RequestException"  connection error, timeout or non-2xx status
\*   "ValueError"        the body of a 2xx response is not JSON
\*   "json"              the body decoded to resp.payload
Responses ==
    { [how |-> "RequestException", payload |-> NoPayload],
      [how |-> "ValueError", payload |-> NoPayload] }
    \cup { [how |-> "json", payload |-> p] : p \in Payloads }
NoResponse == [how |-> "", payload |-> NoPayload]

\* line 235
IsObject_Any(p) == TRUE
IsObject(p) == p.kind = "object"

\* line 233: payload.get("success") is False
SuccessIsFalse_Falsy(p) == JGet(p, "success", "None") \in {"false", "0", "null", "None"}
SuccessIsFalse(p) == JGet(p, "success", "None") = "false"

\* lines 228-237: the error message _request_json raises for a response,
\* "ok" when it returns the payload
Verdict(r) ==
    CASE r.how = "RequestException" -> "Request failed"
      [] r.how = "ValueError" -> "Received invalid JSON from hashes.com."
      [] OTHER ->
           IF IsObject(r.payload) /\ SuccessIsFalse(r.payload)
           THEN PyStr(JGet(r.payload, "message", "API request failed."))
           ELSE IF ~IsObject(r.payload)
           THEN "Unexpected API response format."
           ELSE "ok"

NoArgs == [op |-> "", path |-> "", method |-> "GET", requires |-> FALSE,
           params |-> NoneC, data |-> NoneC, sent0 |-> 0, input |-> <<>>]
EmptyHeap == [P |-> NoneC, D |-> NoneC, rp |-> NoneC, rd |-> NoneC]

\* __init__, lines 25-30
InitRequest ==
    /\ raw_key \in RawKeys
    /\ api_key = Strip(raw_key)
    /\ rpc = "idle"
    /\ rargs = NoArgs
    /\ heap = EmptyHeap
    /\ rpRef = "rp"
    /\ rdRef = "D"
    /\ seen = [key |-> <<>>, raw |-> <<>>]
    /\ sent = <<>>
    /\ rerr = ""
    /\ ncalls = 0
    /\ resp = NoResponse
    /\ rret = NoPayload

\* lines 32-33
Stored_Unstripped(raw) == raw
Stored(raw) == Strip(raw)

set_api_key ==
    /\ \E raw \in RawKeys :
        /\ raw_key' = raw
        /\ api_key' = Stored(raw)
    /\ UNCHANGED <<rpc, rargs, heap, rpRef, rdRef, seen, sent, rerr, ncalls,
                   resp, rret>>

\* a caller enters _request_json(path, method=, params=, data=, requires_api_key=);
\* input is history: the argument the operation itself was called with
EnterWith(op, path, method, params, data, requires, input) ==
    /\ rpc \in {"idle", "done"}
    /\ ncalls < MaxCalls
    /\ ncalls' = ncalls + 1
    /\ rargs' = [op |-> op, path |-> path, method |-> method,
                 requires |-> requires, params |-> params, data |-> data,
                 sent0 |-> Len(sent), input |-> input]
    /\ heap' = [EmptyHeap EXCEPT !.P = params, !.D = data]
    /\ rpRef' = "rp"
    /\ rdRef' = "D"
    /\ rpc' = "check"
    /\ rerr' = ""
    /\ resp' = NoResponse
    /\ rret' = NoPayload
    /\ UNCHANGED <<api_key, raw_key, seen, sent>>

Enter(op, path, method, params, data, requires) ==
    EnterWith(op, path, method, params, data, requires, <<>>)

\* line 64
get_jobs == Enter("get_jobs", "/jobs", "GET", NoneC, NoneC, TRUE)

\* line 81
get_balance == Enter("get_balance", "/balance", "GET", NoneC, NoneC, TRUE)

\* line 90
HashList_KeepsBlank(hashes) == SelectSeq(hashes, LAMBDA h : h # <<>>)
HashList(hashes) ==
    LET keep(h) == h # <<>> /\ Strip(h) # <<>>
        kept == SelectSeq(hashes, keep)
    IN [n \in 1..Len(kept) |-> Strip(kept[n])]

LOOKUP_LIMIT == 250

\* line 93
TooMany_Inclusive(hash_list) == Len(hash_list) >= LOOKUP_LIMIT
TooMany(hash_list) == Len(hash_list) > LOOKUP_LIMIT

\* lines 89-100, for a call whose argument is one of inputs
lookup_call(inputs) ==
    \E hashes \in inputs :
        LET hash_list == HashList(hashes) IN
        IF hash_list = <<>> \/ TooMany(hash_list)
        THEN /\ rpc \in {"idle", "done"}
             /\ ncalls < MaxCalls
             /\ ncalls' = ncalls + 1
             /\ rargs' = [NoArgs EXCEPT !.op = "lookup_hashes", !.sent0 = Len(sent),
                                        !.input = hashes]
             /\ rpc' = "done"
             /\ rerr' = IF hash_list = <<>>
                        THEN "Please provide at least one hash to search."
                        ELSE "The API allows up to 250 hashes per lookup request."
             /\ resp' = NoResponse
             /\ rret' = NoPayload
             /\ UNCHANGED <<api_key, raw_key, heap, rpRef, rdRef, seen, sent>>
        ELSE EnterWith("lookup_hashes", "/search", "POST", NoneC,
                       Dict(<< <<"hashes[]", ListVal(hash_list)>> >>), TRUE, hashes)

lookup_hashes == lookup_call(LookupInputs)

\* Batches around the limit of line 93.  The n-th hash of a batch is the
\* four-digit numeral of n over the digits of the model.
HashDigits == <<"0", "1", "2", "5", "9">>
Hash(n) == << HashDigits[((n \div 125) % 5) + 1], HashDigits[((n \div 25) % 5) + 1],
              HashDigits[((n \div 5) % 5) + 1], HashDigits[(n % 5) + 1] >>
Batch(k) == [n \in 1..k |-> Hash(n)]
Padded(l) == <<<<" ">>, <<>>>> \o [n \in 1..Len(l) |-> <<" ">> \o l[n] \o <<" ">>]

BatchInputs ==
    { Batch(LOOKUP_LIMIT), Batch(LOOKUP_LIMIT + 1), Batch(1),
      Padded(Batch(LOOKUP_LIMIT)),
      Append(Batch(LOOKUP_LIMIT), Hash(1)),
      [n \in 1..(LOOKUP_LIMIT + 1) |-> Hash(1)],
      <<>>, <<<<" ">>, <<>>>> }

lookup_batch == lookup_call(BatchInputs)

\* line 36
get_algorithms == Enter("get_algorithms", "/algorithms", "GET", NoneC, NoneC, FALSE)

\* lines 85-86; extended is "true" or "false"
IdentifyParams(extended) ==
    Dict(<< <<"hash", Scalar(<<"h">>)>>, <<"extended", Scalar(extended)>> >>)
identify_hash_Authenticated ==
    \E e \in {<<"t", "r", "u", "e">>, <<"f", "a", "l", "s", "e">>} :
        Enter("identify_hash", "/identifier", "GET", IdentifyParams(e), NoneC, TRUE)
identify_hash ==
    \E e \in {<<"t", "r", "u", "e">>, <<"f", "a", "l", "s", "e">>} :
        Enter("identify_hash", "/identifier", "GET", IdentifyParams(e), NoneC, FALSE)

\* line 116
get_conversion_rates ==
    Enter("get_conversion_rates", "/conversion", "GET", NoneC, NoneC, FALSE)

\* lines 163-171: the request of _stream_download for a left list; it is
\* built from the path alone and goes through the same session
stream_download ==
    /\ rpc \in {"idle", "done"}
    /\ ncalls < MaxCalls
    /\ ncalls' = ncalls + 1
    /\ \E url_path \in {"/a", "/b"} :
         /\ rargs' = [NoArgs EXCEPT !.op = "_stream_download", !.path = url_path,
                                    !.sent0 = Len(sent)]
         /\ sent' = Append(sent, [method |-> "GET", path |-> url_path,
                                  params |-> NoneC, data |-> NoneC])
    /\ rpc' = "done"
    /\ rerr' = ""
    /\ resp' = NoResponse
    /\ rret' = NoPayload
    /\ UNCHANGED <<api_key, raw_key, heap, rpRef, rdRef, seen>>

\* any other caller of _request_json (lines 190-198)
request_json ==
    \E m \in Methods, p \in ParamChoices, d \in DataChoices, r \in BOOLEAN :
        Enter("_request_json", "/x", m, p, d, r)

\* line 199
MissingKey(requires, key) == requires /\ key = <<>>

\* lines 199-200
CheckKey ==
    /\ rpc = "check"
    /\ seen' = [key |-> api_key, raw |-> raw_key]
    /\ IF MissingKey(rargs.requires, api_key)
       THEN /\ rpc' = "done"
            /\ rerr' = "An API key is required for this action."
       ELSE /\ rpc' = "build"
            /\ rerr' = rerr
    /\ UNCHANGED <<api_key, raw_key, rargs, heap, rpRef, rdRef, sent, ncalls,
                   resp, rret>>

\* line 202: request_params = dict(params or {}) is a new object
ParamsTarget == "rp"

\* lines 210-211 / 214: request_data = dict(request_data) / list(request_data)
DataTarget_CallerObject == "D"
DataTarget == "rd"

\* line 205
ViaQuery(method) == Upper(method) = "GET"

\* lines 202-215
BuildRequest ==
    /\ rpc = "build"
    /\ LET key == Scalar(api_key)
           h1 == [heap EXCEPT !.rp = DictOf(heap.P)]
           pr == ParamsTarget
       IN
       IF ~rargs.requires
       THEN /\ heap' = h1 /\ rpRef' = pr /\ rdRef' = "D"
       ELSE IF ViaQuery(rargs.method)
       THEN /\ heap' = [h1 EXCEPT ![pr] = DictSet(h1[pr], "key", key)]
            /\ rpRef' = pr /\ rdRef' = "D"
       ELSE LET dr == DataTarget
                src == IF h1.D.kind = "none" THEN Dict(<<>>) ELSE h1.D
            IN /\ heap' = IF src.kind = "dict"
                          THEN [h1 EXCEPT ![dr] = DictSet(DictOf(src), "key", key)]
                          ELSE [h1 EXCEPT ![dr] =
                                   List(Append(src.items, <<"key", key>>))]
               /\ rpRef' = pr /\ rdRef' = dr
    /\ rpc' = "send"
    /\ UNCHANGED <<api_key, raw_key, rargs, seen, sent, rerr, ncalls, resp, rret>>

\* lines 217-237: session.request and the handling of the response
SendRequest ==
    /\ rpc = "send"
    /\ sent' = Append(sent, [method |-> Upper(rargs.method),
                             path |-> rargs.path,
                             params |-> IF Truthy(heap[rpRef]) THEN heap[rpRef] ELSE NoneC,
                             data |-> heap[rdRef]])
    /\ \E r \in Responses :
        /\ resp' = r
        /\ rerr' = Verdict(r)
        /\ rret' = IF Verdict(r) = "ok" THEN r.payload ELSE NoPayload
    /\ rpc' = "done"
    /\ UNCHANGED <<api_key, raw_key, rargs, heap, rpRef, rdRef, seen, ncalls>>

\* ======================================================================
\* Text and numbers: str.lower/upper, int(), float(), ordering of strings
\* ======================================================================
\* The characters of the model's texts with their code points.
CharCode == [c \in {" ", "-", ".", "0", "1", "2", "5", "9",
                     "A", "B", "C", "D", "E", "I", "N", "O", "R", "S", "T", "Z",
                     "a", "b", "c", "d", "e", "i", "n", "o", "r", "s", "t", "x", "z"} |->
    CASE c = " " -> 32 [] c = "-" -> 45 [] c = "." -> 46
      [] c = "0" -> 48 [] c = "1" -> 49 [] c = "2" -> 50 [] c = "5" -> 53 [] c = "9" -> 57
      [] c = "A" -> 65 [] c = "B" -> 66 [] c = "C" -> 67 [] c = "D" -> 68
      [] c = "E" -> 69 [] c = "I" -> 73 [] c = "N" -> 78 [] c = "O" -> 79
      [] c = "R" -> 82 [] c = "S" -> 83
      [] c = "T" -> 84 [] c = "Z" -> 90
      [] c = "a" -> 97 [] c = "b" -> 98 [] c = "c" -> 99 [] c = "d" -> 100
      [] c = "e" -> 101 [] c = "i" -> 105 [] c = "n" -> 110 [] c = "o" -> 111
      [] c = "r" -> 114 [] c = "s" -> 115
      [] c = "t" -> 116 [] c = "x" -> 120 [] c = "z" -> 122]

CharOf(n) == CHOOSE c \in DOMAIN CharCode : CharCode[c] = n

IsUpperChar(c) == CharCode[c] \in 65..90
IsLowerChar(c) == CharCode[c] \in 97..122
IsDigit(c) == CharCode[c] \in 48..57

\* str.lower() / str.upper()
Lower(t) == [n \in 1..Len(t) |-> IF IsUpperChar(t[n]) THEN CharOf(CharCode[t[n]] + 32) ELSE t[n]]
ToUpper(t) == [n \in 1..Len(t) |-> IF IsLowerChar(t[n]) THEN CharOf(CharCode[t[n]] - 32) ELSE t[n]]

\* a < b for two str values (code point order)
RECURSIVE TextLess(_, _)
TextLess(a, b) ==
    IF b = <<>> THEN FALSE
    ELSE IF a = <<>> THEN TRUE
    ELSE IF CharCode[Head(a)] # CharCode[Head(b)] THEN CharCode[Head(a)] < CharCode[Head(b)]
    ELSE TextLess(Tail(a), Tail(b))

IsDigits(t) == t # <<>> /\ \A n \in 1..Len(t) : IsDigit(t[n])

RECURSIVE NatOf(_)
NatOf(t) == IF t = <<>> THEN 0
            ELSE 10 * NatOf(SubSeq(t, 1, Len(t) - 1)) + (CharCode[t[Len(t)]] - 48)

\* Numbers are kept in tenths (9.5 is 95), which is exact for the numerals
\* of the model: at most one digit after the point.
Tenths == 10

Unsigned(t) == IF t # <<>> /\ Head(t) = "-" THEN Tail(t) ELSE t
Signed(t, n) == IF t # <<>> /\ Head(t) = "-" THEN 0 - n ELSE n

\* int(text): surrounding white space, an optional sign, digits
IntParses(t) == IsDigits(Unsigned(Strip(t)))
IntValue(t) == Signed(Strip(t), NatOf(Unsigned(Strip(t))) * Tenths)

\* float(text): as int(), or digits "." one digit
FloatParses(t) ==
    LET u == Unsigned(Strip(t)) IN
    \/ IsDigits(u)
    \/ /\ Len(u) >= 3
       /\ u[Len(u) - 1] = "."
       /\ IsDigits(SubSeq(u, 1, Len(u) - 2))
       /\ IsDigit(u[Len(u)])
FloatValue(t) ==
    LET u == Unsigned(Strip(t)) IN
    IF IsDigits(u) THEN Signed(Strip(t), NatOf(u) * Tenths)
    ELSE Signed(Strip(t), NatOf(SubSeq(u, 1, Len(u) - 2)) * Tenths
                          + NatOf(<<u[Len(u)]>>))

\* A decoded JSON scalar: None, a number (in tenths) or a str.
PNone == [t |-> "none", n |-> 0, s |-> <<>>]
PNum(n) == [t |-> "num", n |-> n, s |-> <<>>]
PStr(s) == [t |-> "str", n |-> 0, s |-> s]

\* float(v) of line 109: does it raise, and its value
FloatRaises(v) == v.t = "none" \/ (v.t = "str" /\ ~FloatParses(v.s))
FloatOf(v) == IF v.t = "num" THEN v.n ELSE FloatValue(v.s)

\* ======================================================================
\* Conversion cache: get_conversion_rates and convert_to_usd
\* ======================================================================
\* The body of a /conversion response: the members _request_json looks at
\* (names in lower case) and the currency rates (names in upper case, as
\* the lookup of line 107 needs them), each rate a JSON scalar.
CJson(kind, members, rates) == [kind |-> kind, members |-> members, rates |-> rates]
CNone == CJson("none", {}, {})

ConvPayloads ==
    { CJson("object", {}, {}),
      CJson("object", {<<"success", "true">>}, {<<<<"B", "T", "C">>, PStr(<<"2">>)>>}),
      CJson("object", {}, {<<<<"B", "T", "C">>, PStr(<<"x">>)>>,
                           <<<<"C", "R", "E", "D", "I", "T", "S">>, PStr(<<"1">>)>>}),
      CJson("object", {<<"success", "false">>}, {}),
      CJson("array", {}, {}) }

ConvResponses ==
    { [how |-> "RequestException", payload |-> CNone],
      [how |-> "ValueError", payload |-> CNone] }
    \cup { [how |-> "json", payload |-> p] : p \in ConvPayloads }

\* An object in memory: the payload of the id-th /conversion request.
Obj(id, payload) == [id |-> id, payload |-> payload]
NoObj == Obj(0, CNone)

\* truth value of self._conversion_cache: None and the empty dict are falsy
CacheTruthy(o) == o.id # 0 /\ (o.payload.members # {} \/ o.payload.rates # {})

\* line 112
DEFAULT_CACHE_SECONDS == 60

TtlChoices == {DEFAULT_CACHE_SECONDS, 20}

\* time.time() at start-up and the steps by which it advances
StartTimes == {1000}
Ticks == {20, 40}

Threads == {1, 2}

\* arguments of convert_to_usd
Amounts == { PNum(100 * Tenths), PStr(<<"a">>) }
Currencies == { <<"c", "r", "e", "d", "i", "t", "s">>,
                <<"C", "r", "e", "d", "i", "t", "s">>,
                <<"b", "t", "c">>,
                <<"Z", "Z", "Z">> }

VARIABLES
    clock,        \* time.time()
    conv_cache,   \* self._conversion_cache
    conv_at,      \* self._conversion_cache_at
    nreq,         \* /conversion requests issued so far
    born,         \* born[id]: the 'now' of the call that issued request id
    th            \* per calling thread: position, arguments, locals, result

cvars == <<clock, conv_cache, conv_at, nreq, born, th>>

\* pc      position of the thread
\* op      "rates": get_conversion_rates called directly, "convert": through
\*         convert_to_usd
\* now, ttl  locals now and cache_seconds
\* payload the object _request_json returned to the thread
\* ret     what get_conversion_rates returned; err the error it raised
\* res     what convert_to_usd returned ("" = nothing)
\* prev    self._conversion_cache when the call began
\* atread  the timestamp read by the test of line 114 (-1: not read)
\* reqs    requests the call has issued
ThreadAtRest ==
    [pc |-> "idle", op |-> "", amount |-> PNone, currency |-> <<>>,
     now |-> 0, ttl |-> 0, payload |-> NoObj, ret |-> NoObj, err |-> "",
     res |-> <<>>, prev |-> NoObj, atread |-> -1, reqs |-> 0]

CacheAtRest ==
    /\ clock = 1000 /\ conv_cache = NoObj /\ conv_at = 0 /\ nreq = 0
    /\ born = <<>> /\ th = [t \in Threads |-> ThreadAtRest]

\* __init__, lines 29-30
InitCache ==
    /\ clock \in StartTimes
    /\ conv_cache = NoObj
    /\ conv_at = 0
    /\ nreq = 0
    /\ born = <<>>
    /\ th = [t \in Threads |-> ThreadAtRest]

Tick ==
    /\ \E d \in Ticks :
        /\ clock + d <= 1000 + MaxTicks * 20
        /\ clock' = clock + d
    /\ UNCHANGED <<conv_cache, conv_at, nreq, born, th>>

Begin(t, op, amount, currency, ttl) ==
    [ThreadAtRest EXCEPT !.pc = "now", !.op = op, !.amount = amount,
                         !.currency = currency, !.ttl = ttl, !.prev = conv_cache]

\* a caller enters get_conversion_rates(cache_seconds=ttl)
rates_call(t) ==
    /\ th[t].pc \in {"idle", "done"}
    /\ \E ttl \in TtlChoices : th' = [th EXCEPT ![t] = Begin(t, "rates", PNone, <<>>, ttl)]
    /\ UNCHANGED <<clock, conv_cache, conv_at, nreq, born>>

\* line 104
IsCredits_CaseSensitive(currency) == currency = <<"c", "r", "e", "d", "i", "t", "s">>
IsCredits(currency) == Lower(currency) = <<"c", "r", "e", "d", "i", "t", "s">>

NotApplicable == <<"N", "/", "A">>

\* lines 103-106: convert_to_usd up to its call of get_conversion_rates
convert_call(t) ==
    /\ th[t].pc \in {"idle", "done"}
    /\ \E a \in Amounts, c \in Currencies :
        th' = [th EXCEPT ![t] =
                 IF IsCredits(c)
                 THEN [ThreadAtRest EXCEPT !.pc = "done", !.op = "convert", !.amount = a,
                                           !.currency = c, !.res = NotApplicable,
                                           !.prev = conv_cache]
                 ELSE Begin(t, "convert", a, c, DEFAULT_CACHE_SECONDS)]
    /\ UNCHANGED <<clock, conv_cache, conv_at, nreq, born>>

\* line 113
ReadNow(t) ==
    /\ th[t].pc = "now"
    /\ th' = [th EXCEPT ![t].now = clock, ![t].pc = "test"]
    /\ UNCHANGED <<clock, conv_cache, conv_at, nreq, born>>

\* line 114, left operand: self._conversion_cache
TestCache(t) ==
    /\ th[t].pc = "test"
    /\ th' = [th EXCEPT ![t].pc = IF CacheTruthy(conv_cache) THEN "age" ELSE "fetch"]
    /\ UNCHANGED <<clock, conv_cache, conv_at, nreq, born>>

\* line 114, right operand
Fresh_Inclusive(now, at, ttl) == now - at <= ttl
Fresh(now, at, ttl) == now - at < ttl

TestAge(t) ==
    /\ th[t].pc = "age"
    /\ th' = [th EXCEPT ![t].atread = conv_at,
                        ![t].pc = IF Fresh(th[t].now, conv_at, th[t].ttl)
                                  THEN "hit" ELSE "fetch"]
    /\ UNCHANGED <<clock, conv_cache, conv_at, nreq, born>>

\* where a thread goes when get_conversion_rates is left
After(op) == IF op = "convert" THEN "format" ELSE "done"

\* line 115: return self._conversion_cache
ReturnCached(t) ==
    /\ th[t].pc = "hit"
    /\ th' = [th EXCEPT ![t].ret = conv_cache, ![t].pc = After(th[t].op)]
    /\ UNCHANGED <<clock, conv_cache, conv_at, nreq, born>>

\* line 116: _request_json("/conversion"); an error leaves
\* get_conversion_rates and convert_to_usd alike
Fetch(t) ==
    /\ th[t].pc = "fetch"
    /\ nreq < MaxFetches
    /\ nreq' = nreq + 1
    /\ born' = Append(born, th[t].now)
    /\ \E r \in ConvResponses :
        th' = [th EXCEPT ![t] =
                 IF Verdict(r) = "ok"
                 THEN [@ EXCEPT !.payload = Obj(nreq + 1, r.payload), !.reqs = @ + 1,
                                !.pc = "store"]
                 ELSE [@ EXCEPT !.err = Verdict(r), !.reqs = @ + 1, !.pc = "done"]]
    /\ UNCHANGED <<clock, conv_cache, conv_at>>

\* line 117
StoreTable(t) ==
    /\ th[t].pc = "store"
    /\ conv_cache' = th[t].payload
    /\ th' = [th EXCEPT ![t].pc = "stamp"]
    /\ UNCHANGED <<clock, conv_at, nreq, born>>

\* line 118: the time stored
Stamp(now, time) == now

\* lines 118-119
StoreTime(t) ==
    /\ th[t].pc = "stamp"
    /\ conv_at' = Stamp(th[t].now, clock)
    /\ th' = [th EXCEPT ![t].ret = th[t].payload, ![t].pc = After(th[t].op)]
    /\ UNCHANGED <<clock, conv_cache, nreq, born>>

\* currency.upper() in rates / rates[currency.upper()]
HasRate(payload, currency) == \E m \in payload.rates : m[1] = ToUpper(currency)
RateOf(payload, currency) == (CHOOSE m \in payload.rates : m[1] = ToUpper(currency))[2]

\* f"${usd:.3f}" for usd = a * b, a and b in tenths
Usd(a, b) == <<"$", (a * b) \div (Tenths * Tenths), ((a * b) % (Tenths * Tenths)) * 10>>
ZeroUsd == <<"$", 0, 0>>

\* lines 107-110
Format(t) ==
    /\ th[t].pc = "format"
    /\ LET rates == th[t].ret.payload
           c == th[t].currency
       IN th' = [th EXCEPT ![t] =
            IF ~HasRate(rates, c)
            THEN [@ EXCEPT !.res = ZeroUsd, !.pc = "done"]
            ELSE IF FloatRaises(th[t].amount) \/ FloatRaises(RateOf(rates, c))
            THEN [@ EXCEPT !.err = "ValueError", !.pc = "done"]
            ELSE [@ EXCEPT !.res = Usd(FloatOf(th[t].amount), FloatOf(RateOf(rates, c))),
                           !.pc = "done"]]
    /\ UNCHANGED <<clock, conv_cache, conv_at, nreq, born>>

\* a GUI worker thread enters get_conversion_rates() the way convert_to_usd
\* calls it (line 106), once in its life
worker_call(t) ==
    /\ th[t].pc = "idle"
    /\ th' = [th EXCEPT ![t] = Begin(t, "rates", PNone, <<>>, DEFAULT_CACHE_SECONDS)]
    /\ UNCHANGED <<clock, conv_cache, conv_at, nreq, born>>

\* the client when the workers start: the cache as __init__ left it, or as
\* one completed get_conversion_rates call left it
InitCacheWorkers ==
    /\ clock \in StartTimes
    /\ th = [t \in Threads |-> ThreadAtRest]
    /\ \/ /\ conv_cache = NoObj /\ conv_at = 0 /\ nreq = 0 /\ born = <<>>
       \/ /\ \E p \in ConvPayloads :
                /\ Verdict([how |-> "json", payload |-> p]) = "ok"
                /\ conv_cache = Obj(1, p)
          /\ conv_at = clock
          /\ nreq = 1
          /\ born = <<clock>>

\* ======================================================================
\* Job listing: get_jobs (post-fetch filters and sort) and _sort_value
\* ======================================================================
\* A row of the /jobs list is a function from the keys present to decoded
\* JSON scalars.  The rows the server may list, before numbering:
JobRows ==
    { [createdAt |-> PStr(<<"9">>), currency |-> PStr(<<"B", "T", "C">>),
       algorithmId |-> PNum(0)],
      [createdAt |-> PStr(<<"1", "0">>), currency |-> PStr(<<"b", "t", "c">>),
       algorithmId |-> PStr(<<"0">>)],
      [createdAt |-> PNum(9 * Tenths), currency |-> PStr(<<"Z", "E", "C">>),
       algorithmId |-> PNum(1 * Tenths)],
      [createdAt |-> PStr(<<"9", ".", "5">>), currency |-> PNone],
      [currency |-> PStr(<<"z", "e", "c">>)],
      [createdAt |-> PStr(<<"A", "b">>), algorithmId |-> PStr(<<"0">>)] }

\* the n-th row of a list carries id n, so that no two rows are equal
WithId(row, n) == [id |-> PNum(n * Tenths)] @@ row
Numbered(l) == [n \in 1..Len(l) |-> WithId(l[n], n)]

\* The body of a /jobs response as far as get_jobs reads it: with or
\* without the member "list".
RemoteJobs ==
    { [has_list |-> FALSE, list |-> <<>>] }
    \cup { [has_list |-> TRUE, list |-> Numbered(l)] : l \in SeqsUpTo(JobRows, MaxRows) }

\* sortby arguments
SortKeys == {"createdAt", "id"}

\* a filter argument: None, or a set of str
NoFilter == [given |-> FALSE, set |-> {}]
Given(S) == [given |-> TRUE, set |-> S]
\* currency_filter and algorithm_filter of a call
FilterChoices ==
    { <<NoFilter, NoFilter>>,
      <<Given({}), NoFilter>>,
      <<Given({<<"B", "T", "C">>}), NoFilter>>,
      <<NoFilter, Given({})>>,
      <<NoFilter, Given({<<"0">>})>>,
      <<Given({<<"B", "T", "C">>}), Given({<<"0">>})>> }

\* truth value of a filter argument (lines 66, 72)
FilterGiven(f) == f.given /\ f.set # {}

\* str(n) of a non-negative number kept in tenths
RECURSIVE Digits(_)
Digits(n) == IF n < 10 THEN <<CharOf(48 + n)>>
             ELSE Append(Digits(n \div 10), CharOf(48 + (n % 10)))
NumText(n) == IF n % Tenths = 0 THEN Digits(n \div Tenths)
              ELSE Digits(n \div Tenths) \o <<".">> \o Digits(n % Tenths)

\* str(v)
StrOf(v) == IF v.t = "str" THEN v.s
            ELSE IF v.t = "num" THEN NumText(v.n)
            ELSE <<"N", "o", "n", "e">>

\* line 70 and line 76
CurrencyPasses(job, f) == ToUpper(StrOf(Get(job, "currency", PStr(<<>>)))) \in f.set
AlgorithmPasses(job, f) == StrOf(Get(job, "algorithmId", PStr(<<>>))) \in f.set

\* lines 66-77
Filtered(l, cf, af) ==
    LET a == IF FilterGiven(cf) THEN SelectSeq(l, LAMBDA job : CurrencyPasses(job, cf)) ELSE l
    IN IF FilterGiven(af) THEN SelectSeq(a, LAMBDA job : AlgorithmPasses(job, af)) ELSE a

\* lines 239-252: _sort_value
sort_value_Lexical(v) ==
    IF v.t = "none" THEN PStr(<<>>)
    ELSE IF v.t = "num" THEN v
    ELSE PStr(Lower(v.s))
sort_value(v) ==
    IF v.t = "none" THEN PStr(<<>>)
    ELSE IF v.t = "num" THEN v
    ELSE IF IntParses(v.s) THEN PNum(IntValue(v.s))
    ELSE IF FloatParses(v.s) THEN PNum(FloatValue(v.s))
    ELSE PStr(Lower(v.s))

\* the key function of line 78
KeyOf(row, sortby) == sort_value(Get(row, sortby, PNone))
Keys(l, sortby) == [n \in 1..Len(l) |-> KeyOf(l[n], sortby)]

\* a < b for two keys of one type; between a str and a number Python
\* raises TypeError, and a sort of two or more keys that mixes the two
\* types must compare such a pair
KeyLess(a, b) == IF a.t = "num" THEN a.n < b.n ELSE TextLess(a.s, b.s)
SortRaises(l, sortby) ==
    \E i, j \in 1..Len(l) : KeyOf(l[i], sortby).t # KeyOf(l[j], sortby).t

Reverse(s) == [n \in 1..Len(s) |-> s[Len(s) + 1 - n]]

\* list.sort: stable, ascending
RECURSIVE Insert(_, _, _)
Insert(x, s, sortby) ==
    IF s = <<>> THEN <<x>>
    ELSE IF KeyLess(KeyOf(x, sortby), KeyOf(Head(s), sortby)) THEN <<x>> \o s
    ELSE <<Head(s)>> \o Insert(x, Tail(s), sortby)

RECURSIVE StableAscending(_, _)
StableAscending(l, sortby) ==
    IF l = <<>> THEN <<>>
    ELSE Insert(l[Len(l)], StableAscending(SubSeq(l, 1, Len(l) - 1), sortby), sortby)

\* reverse=True: the list is reversed, sorted, and reversed again, which
\* leaves rows of equal key in their original order
Descending_ReversedAscending(l, sortby) == Reverse(StableAscending(l, sortby))
Descending(l, sortby) == Reverse(StableAscending(Reverse(l), sortby))

\* sorted(jobs, key=..., reverse=reverse)
Sorted_FlagIgnored(l, sortby, reverse) == StableAscending(l, sortby)
Sorted(l, sortby, reverse) ==
    IF reverse THEN Descending(l, sortby) ELSE StableAscending(l, sortby)

VARIABLES
    remote_jobs,  \* the body the server answers /jobs with
    jargs,        \* sortby, currency_filter, algorithm_filter of the calls
    jpc,          \* position of the caller in get_jobs
    jrev,         \* the reverse argument of the call
    jfetched,     \* jobs after line 65
    jlist,        \* jobs after line 77
    jret,         \* the returned list
    jerr,         \* the exception that left get_jobs, "" if none
    jlast,        \* history: the call before this one
    jcalls        \* history: calls made

jvars == <<remote_jobs, jargs, jpc, jrev, jfetched, jlist, jret, jerr, jlast, jcalls>>

NoListing == [has |-> FALSE, reverse |-> FALSE, ret |-> <<>>, err |-> ""]
DefaultArgs == [sortby |-> "createdAt", currency_filter |-> NoFilter,
                algorithm_filter |-> NoFilter]

JobsAtRest ==
    /\ remote_jobs = [has_list |-> FALSE, list |-> <<>>]
    /\ jargs = DefaultArgs
    /\ jpc = "idle" /\ jrev = TRUE
    /\ jfetched = <<>> /\ jlist = <<>> /\ jret = <<>> /\ jerr = ""
    /\ jlast = NoListing /\ jcalls = 0

\* One job list on the server and one choice of sort key and filters; the
\* calls of a behaviour differ in the reverse flag only.
InitJobs ==
    /\ remote_jobs \in RemoteJobs
    /\ \E sortby \in SortKeys, f \in FilterChoices :
          jargs = [sortby |-> sortby, currency_filter |-> f[1],
                   algorithm_filter |-> f[2]]
    /\ jpc = "idle" /\ jrev = TRUE
    /\ jfetched = <<>> /\ jlist = <<>> /\ jret = <<>> /\ jerr = ""
    /\ jlast = NoListing /\ jcalls = 0

\* lines 56-65: the call, the /jobs request (it may raise HashesApiError)
\* and payload.get("list", [])
FetchJobs ==
    /\ jpc \in {"idle", "done"}
    /\ jcalls < MaxListings
    /\ jcalls' = jcalls + 1
    /\ jlast' = IF jpc = "done"
                THEN [has |-> TRUE, reverse |-> jrev, ret |-> jret, err |-> jerr]
                ELSE jlast
    /\ \E reverse \in BOOLEAN : jrev' = reverse
    /\ \E ok \in BOOLEAN :
         IF ok
         THEN /\ jfetched' = IF remote_jobs.has_list THEN remote_jobs.list ELSE <<>>
              /\ jpc' = "fetched" /\ jerr' = ""
         ELSE /\ jfetched' = <<>>
              /\ jpc' = "done" /\ jerr' = "HashesApiError"
    /\ jlist' = <<>> /\ jret' = <<>>
    /\ UNCHANGED <<remote_jobs, jargs>>

\* lines 66-77
FilterJobs ==
    /\ jpc = "fetched"
    /\ jlist' = Filtered(jfetched, jargs.currency_filter, jargs.algorithm_filter)
    /\ jpc' = "filtered"
    /\ UNCHANGED <<remote_jobs, jargs, jrev, jfetched, jret, jerr, jlast, jcalls>>

\* line 78
SortJobs ==
    /\ jpc = "filtered"
    /\ IF SortRaises(jlist, jargs.sortby)
       THEN jerr' = "TypeError" /\ jret' = <<>>
       ELSE jerr' = "" /\ jret' = Sorted(jlist, jargs.sortby, jrev)
    /\ jpc' = "done"
    /\ UNCHANGED <<remote_jobs, jargs, jrev, jfetched, jlist, jlast, jcalls>>

\* ======================================================================
\* Algorithm directory: get_algorithms and fetch_and_update_algorithms_file
\* ======================================================================
\* Entries of the /algorithms list: ids as JSON strings or numbers, an
\* entry without a name and one without an id.
AlgName == PStr(<<"n">>)
AlgItems ==
    { [id |-> PStr(<<"9">>), algorithmName |-> AlgName],
      [id |-> PStr(<<"1", "0">>), algorithmName |-> AlgName],
      [id |-> PNum(2 * Tenths), algorithmName |-> AlgName],
      [id |-> PStr(<<"1", "0", "0", "0", "0", "0", "0">>), algorithmName |-> AlgName],
      [id |-> PStr(<<"a", "b">>), algorithmName |-> AlgName],
      [id |-> PStr(<<"0", "x">>), algorithmName |-> PNone],
      [id |-> PStr(<<"5">>)],
      [algorithmName |-> AlgName] }

\* The body of an /algorithms response: the members _request_json looks at
\* and the entries of "list" (an absent "list" reads as no entries, line 38).
AJson(kind, members, list) == [kind |-> kind, members |-> members, list |-> list]
ANone == AJson("none", {}, <<>>)

AlgResponses ==
    { [how |-> "RequestException", payload |-> ANone],
      [how |-> "ValueError", payload |-> ANone],
      [how |-> "json", payload |-> AJson("array", {}, <<>>)],
      [how |-> "json", payload |-> AJson("object", {<<"success", "false">>}, <<>>)] }
    \cup { [how |-> "json", payload |-> AJson("object", {}, l)] :
             l \in SeqsUpTo(AlgItems, MaxAlgs) }

\* algorithms[k] = v on the dict under construction: <<key, value>> pairs in
\* insertion order, a key written again keeps its place
PutAlg(dict, k, v) ==
    IF \E n \in 1..Len(dict) : dict[n][1] = k
    THEN [n \in 1..Len(dict) |-> IF dict[n][1] = k THEN <<k, v>> ELSE dict[n]]
    ELSE Append(dict, <<k, v>>)

\* lines 38-39: the loop of get_algorithms; item["id"] or
\* item["algorithmName"] of an entry without that key raises KeyError
RECURSIVE AlgorithmsOf(_)
AlgorithmsOf(list) ==
    IF list = <<>> THEN <<>>
    ELSE LET item == list[Len(list)]
         IN PutAlg(AlgorithmsOf(SubSeq(list, 1, Len(list) - 1)),
                   StrOf(item.id), StrOf(item.algorithmName))
MissingField(list) ==
    \E n \in 1..Len(list) : {"id", "algorithmName"} \ DOMAIN list[n] # {}

\* line 48: the sort key (int(id) if id.isdigit() else 999999, id)
NON_NUMERIC_RANK == 999999
AlgRank(id) == IF IsDigits(id) THEN NatOf(id) ELSE NON_NUMERIC_RANK
AlgLess(a, b) ==
    \/ AlgRank(a[1]) < AlgRank(b[1])
    \/ AlgRank(a[1]) = AlgRank(b[1]) /\ TextLess(a[1], b[1])

RECURSIVE AlgInsert(_, _)
AlgInsert(x, s) ==
    IF s = <<>> THEN <<x>>
    ELSE IF AlgLess(x, Head(s)) THEN <<x>> \o s
    ELSE <<Head(s)>> \o AlgInsert(x, Tail(s))

RECURSIVE SortedAlgs(_)
SortedAlgs(dict) ==
    IF dict = <<>> THEN <<>>
    ELSE AlgInsert(dict[Len(dict)], SortedAlgs(SubSeq(dict, 1, Len(dict) - 1)))

VARIABLES
    apc,         \* position of the caller in fetch_and_update_algorithms_file
    aresp,       \* the response to the /algorithms request
    algorithms,  \* the dict get_algorithms returned
    afile,       \* the file at file_path
    aret,        \* the returned pair
    aerr         \* the exception that left the call, "" if none

avars == <<apc, aresp, algorithms, afile, aret, aerr>>

\* the file before the call, and what a failed write may leave of it
OldFile == [state |-> "old", table |-> <<>>]
NoReturn == [returned |-> FALSE, ok |-> FALSE, mapping |-> <<>>]
Returned(ok, mapping) == [returned |-> TRUE, ok |-> ok, mapping |-> mapping]

AlgorithmsAtRest ==
    /\ apc = "idle" /\ aresp = [how |-> "", payload |-> ANone]
    /\ algorithms = <<>> /\ afile = OldFile /\ aret = NoReturn /\ aerr = ""

InitAlgorithms == AlgorithmsAtRest

\* lines 36, 44: the /algorithms request; a HashesApiError is caught at
\* line 53
FetchAlgorithms ==
    /\ apc = "idle"
    /\ \E r \in AlgResponses :
         /\ aresp' = r
         /\ IF Verdict(r) = "ok"
            THEN apc' = "fetched" /\ aret' = aret
            ELSE apc' = "done" /\ aret' = Returned(FALSE, <<>>)
    /\ UNCHANGED <<algorithms, afile, aerr>>

\* lines 37-40, 45-46: the dict is built; KeyError is not among the
\* exceptions of line 53
BuildAlgorithms ==
    /\ apc = "fetched"
    /\ IF MissingField(aresp.payload.list)
       THEN /\ apc' = "done" /\ aerr' = "KeyError"
            /\ UNCHANGED <<algorithms, aret>>
       ELSE /\ algorithms' = AlgorithmsOf(aresp.payload.list)
            /\ aerr' = aerr
            /\ IF AlgorithmsOf(aresp.payload.list) = <<>>
               THEN apc' = "done" /\ aret' = Returned(FALSE, <<>>)
               ELSE apc' = "built" /\ aret' = aret
    /\ UNCHANGED <<aresp, afile>>

\* lines 47-52: the sorted table is written; an OSError leaves the old
\* file or a truncated one and is caught at line 53
WriteAlgorithms ==
    /\ apc = "built"
    /\ \/ /\ afile' = [state |-> "written", table |-> SortedAlgs(algorithms)]
          /\ aret' = Returned(TRUE, algorithms)
       \/ /\ afile' \in {OldFile, [state |-> "truncated", table |-> <<>>]}
          /\ aret' = Returned(FALSE, <<>>)
    /\ apc' = "done"
    /\ UNCHANGED <<aresp, algorithms, aerr>>

\* ======================================================================
\* hashes_gui.py: refresh_jobs and _run_background
\* ======================================================================
\* refresh_jobs and every callback given to self.after run on the thread
\* of the Tk main loop, one at a time; _run_background starts one thread
\* per call, whose runner calls worker() and then hands the handlers to
\* the main loop with self.after(0, ...). Tk runs the callbacks of equal
\* delay in the order they were handed over.

\* calls of refresh_jobs in a run; call n starts thread n, if it starts one
MaxRefreshes == 3

Workers == 1 .. MaxRefreshes

VARIABLES
    api_key_var,   \* self.api_key_var, the text of the entry field
    jobs_loading,  \* self.jobs_loading
    runner,        \* runner[w]: position of thread w in runner()
    tkq,           \* callbacks handed to self.after(0, ...), not yet run
    status,        \* self.status_var
    jobs_cache,    \* the thread whose result is in self.jobs_cache, 0: none
    nrefresh,      \* calls of refresh_jobs so far
    ran            \* the callbacks the main loop has run, in order

gvars == <<api_key_var, jobs_loading, runner, tkq, status, jobs_cache,
           nrefresh, ran>>

\* the variables of the client that the GUI leaves alone
rqrest == <<rpc, rargs, heap, rpRef, rdRef, seen, sent, rerr, ncalls, resp,
            rret>>

Callback(fn, w) == [fn |-> fn, w |-> w]

\* hashes_gui.py lines 117-123, 256: the client and the entry field both
\* start from the configured key
GuiAtRest ==
    /\ api_key_var = <<>> /\ jobs_loading = FALSE
    /\ runner = [w \in Workers |-> "unborn"]
    /\ tkq = <<>> /\ status = "Ready" /\ jobs_cache = 0
    /\ nrefresh = 0 /\ ran = <<>>

InitGui ==
    /\ raw_key \in RawKeys /\ api_key = Strip(raw_key)
    /\ api_key_var = raw_key
    /\ jobs_loading = FALSE
    /\ runner = [w \in Workers |-> "unborn"]
    /\ tkq = <<>> /\ status = "Ready" /\ jobs_cache = 0
    /\ nrefresh = 0 /\ ran = <<>>
    /\ rpc = "idle" /\ rargs = NoArgs
    /\ heap = EmptyHeap /\ rpRef = "rp" /\ rdRef = "D"
    /\ seen = [key |-> <<>>, raw |-> <<>>]
    /\ sent = <<>> /\ rerr = "" /\ ncalls = 0
    /\ resp = NoResponse /\ rret = NoPayload

\* the user edits the entry field
TypeKey ==
    /\ \E raw \in RawKeys : api_key_var' = raw /\ raw # api_key_var
    /\ UNCHANGED <<jobs_loading, runner, tkq, status, jobs_cache, nrefresh,
                   ran, api_key, raw_key>>

\* line 735
Busy_Never == FALSE
Busy == jobs_loading

\* lines 645-653: _require_api_key
require_api_key == api_key # <<>> \/ Strip(api_key_var) # <<>>

\* lines 734-760 with _run_background, lines 655-674: the call returns at
\* line 736 or 738, or stores the key of the field, sets jobs_loading and
\* starts the thread
refresh_jobs ==
    /\ nrefresh < MaxRefreshes
    /\ nrefresh' = nrefresh + 1
    /\ \E show_feedback \in BOOLEAN :
        IF Busy \/ ~require_api_key
        THEN UNCHANGED <<api_key_var, jobs_loading, runner, tkq, status,
                         jobs_cache, ran, api_key, raw_key>>
        ELSE /\ raw_key' = api_key_var
             /\ api_key' = Stored(api_key_var)
             /\ jobs_loading' = TRUE
             /\ status' = IF show_feedback THEN "Loading jobs..." ELSE status
             /\ runner' = [runner EXCEPT ![nrefresh + 1] = "work"]
             /\ UNCHANGED <<api_key_var, tkq, jobs_cache, ran>>

\* lines 662-666: worker() returns the jobs or raises
RunWorker(w) ==
    /\ runner[w] = "work"
    /\ \E next \in {"else", "except"} : runner' = [runner EXCEPT ![w] = next]
    /\ UNCHANGED <<api_key_var, jobs_loading, tkq, status, jobs_cache,
                   nrefresh, ran, api_key, raw_key>>

\* lines 667 and 669
ScheduleHandler(w) ==
    /\ runner[w] \in {"else", "except"}
    /\ tkq' = Append(tkq, Callback(IF runner[w] = "else" THEN "on_success"
                                   ELSE "_handle_task_error", w))
    /\ runner' = [runner EXCEPT ![w] = "finally"]
    /\ UNCHANGED <<api_key_var, jobs_loading, status, jobs_cache, nrefresh,
                   ran, api_key, raw_key>>

\* lines 670-672; the thread ends after it
ScheduleFinally(w) ==
    /\ runner[w] = "finally"
    /\ tkq' = Append(tkq, Callback("on_finally", w))
    /\ runner' = [runner EXCEPT ![w] = "ended"]
    /\ UNCHANGED <<api_key_var, jobs_loading, status, jobs_cache, nrefresh,
                   ran, api_key, raw_key>>

\* The main loop runs the oldest callback: on_success (lines 748-753,
\* which may raise after line 749), _handle_task_error (lines 676-683) or
\* the on_finally of line 759.
RunCallback ==
    /\ tkq # <<>>
    /\ LET cb == Head(tkq) IN
        /\ tkq' = Tail(tkq)
        /\ ran' = Append(ran, cb)
        /\ CASE cb.fn = "on_success" ->
                  /\ jobs_cache' = cb.w
                  /\ status' \in {"Loaded jobs.", status}
                  /\ UNCHANGED jobs_loading
             [] cb.fn = "_handle_task_error" ->
                  /\ status' = "Refresh jobs failed."
                  /\ UNCHANGED <<jobs_cache, jobs_loading>>
             [] OTHER ->
                  /\ jobs_loading' = FALSE
                  /\ UNCHANGED <<jobs_cache, status>>
    /\ UNCHANGED <<api_key_var, runner, nrefresh, api_key, raw_key>>

\* ---------------------------------------------------------- specifications
vars == <<dlvars, rqvars, cvars, jvars, avars, gvars>>

DownloadAtRest ==
    /\ pc = "idle" /\ jobs = <<>> /\ on_progress = FALSE
    /\ disk = [exists |-> FALSE, data |-> <<>>]
    /\ index = 0 /\ bytes_written = 0 /\ failed = <<>> /\ append = FALSE
    /\ downloaded = 0 /\ nchunks = 0 /\ exc = "" /\ log = <<>>

RequestAtRest ==
    /\ raw_key = <<>> /\ api_key = <<>> /\ rpc = "idle" /\ rargs = NoArgs
    /\ heap = EmptyHeap /\ rpRef = "rp" /\ rdRef = "D"
    /\ seen = [key |-> <<>>, raw |-> <<>>]
    /\ sent = <<>> /\ rerr = "" /\ ncalls = 0
    /\ resp = NoResponse /\ rret = NoPayload

NextDownload ==
    \/ Call /\ UNCHANGED <<rqvars, cvars, jvars, avars, gvars>>
    \/ Return /\ UNCHANGED <<rqvars, cvars, jvars, avars, gvars>>
    \/ SkipJob /\ UNCHANGED <<rqvars, cvars, jvars, avars, gvars>>
    \/ StartJob /\ UNCHANGED <<rqvars, cvars, jvars, avars, gvars>>
    \/ SendGet /\ UNCHANGED <<rqvars, cvars, jvars, avars, gvars>>
    \/ OpenFile /\ UNCHANGED <<rqvars, cvars, jvars, avars, gvars>>
    \/ Iterate /\ UNCHANGED <<rqvars, cvars, jvars, avars, gvars>>

InitDL == InitDownload /\ RequestAtRest /\ CacheAtRest /\ JobsAtRest /\ AlgorithmsAtRest /\ GuiAtRest

SpecDownload == InitDL /\ [][NextDownload]_vars

NextRequest ==
    \/ set_api_key /\ UNCHANGED <<dlvars, cvars, jvars, avars, gvars>>
    \/ get_jobs /\ UNCHANGED <<dlvars, cvars, jvars, avars, gvars>>
    \/ get_balance /\ UNCHANGED <<dlvars, cvars, jvars, avars, gvars>>
    \/ lookup_hashes /\ UNCHANGED <<dlvars, cvars, jvars, avars, gvars>>
    \/ request_json /\ UNCHANGED <<dlvars, cvars, jvars, avars, gvars>>
    \/ CheckKey /\ UNCHANGED <<dlvars, cvars, jvars, avars, gvars>>
    \/ BuildRequest /\ UNCHANGED <<dlvars, cvars, jvars, avars, gvars>>
    \/ SendRequest /\ UNCHANGED <<dlvars, cvars, jvars, avars, gvars>>

InitRQ == DownloadAtRest /\ InitRequest /\ CacheAtRest /\ JobsAtRest /\ AlgorithmsAtRest /\ GuiAtRest

SpecRequest == InitRQ /\ [][NextRequest]_vars

\* one caller of the conversion operations
NextCache ==
    \/ Tick /\ UNCHANGED <<dlvars, rqvars, jvars, avars, gvars>>
    \/ rates_call(1) /\ UNCHANGED <<dlvars, rqvars, jvars, avars, gvars>>
    \/ convert_call(1) /\ UNCHANGED <<dlvars, rqvars, jvars, avars, gvars>>
    \/ ReadNow(1) /\ UNCHANGED <<dlvars, rqvars, jvars, avars, gvars>>
    \/ TestCache(1) /\ UNCHANGED <<dlvars, rqvars, jvars, avars, gvars>>
    \/ TestAge(1) /\ UNCHANGED <<dlvars, rqvars, jvars, avars, gvars>>
    \/ ReturnCached(1) /\ UNCHANGED <<dlvars, rqvars, jvars, avars, gvars>>
    \/ Fetch(1) /\ UNCHANGED <<dlvars, rqvars, jvars, avars, gvars>>
    \/ StoreTable(1) /\ UNCHANGED <<dlvars, rqvars, jvars, avars, gvars>>
    \/ StoreTime(1) /\ UNCHANGED <<dlvars, rqvars, jvars, avars, gvars>>
    \/ Format(1) /\ UNCHANGED <<dlvars, rqvars, jvars, avars, gvars>>

InitCA == DownloadAtRest /\ RequestAtRest /\ InitCache /\ JobsAtRest /\ AlgorithmsAtRest /\ GuiAtRest

SpecCache == InitCA /\ [][NextCache]_vars

\* Two worker threads of the GUI (hashes_gui.py, _run_background: one
\* thread per click on "Refresh balance"), each in get_conversion_rates
\* once, on a client whose cache is empty or was filled by an earlier call.
NextCacheConc ==
    \/ Tick /\ UNCHANGED <<dlvars, rqvars, jvars, avars, gvars>>
    \/ \E t \in Threads : worker_call(t) /\ UNCHANGED <<dlvars, rqvars, jvars, avars, gvars>>
    \/ \E t \in Threads : ReadNow(t) /\ UNCHANGED <<dlvars, rqvars, jvars, avars, gvars>>
    \/ \E t \in Threads : TestCache(t) /\ UNCHANGED <<dlvars, rqvars, jvars, avars, gvars>>
    \/ \E t \in Threads : TestAge(t) /\ UNCHANGED <<dlvars, rqvars, jvars, avars, gvars>>
    \/ \E t \in Threads : ReturnCached(t) /\ UNCHANGED <<dlvars, rqvars, jvars, avars, gvars>>
    \/ \E t \in Threads : Fetch(t) /\ UNCHANGED <<dlvars, rqvars, jvars, avars, gvars>>
    \/ \E t \in Threads : StoreTable(t) /\ UNCHANGED <<dlvars, rqvars, jvars, avars, gvars>>
    \/ \E t \in Threads : StoreTime(t) /\ UNCHANGED <<dlvars, rqvars, jvars, avars, gvars>>

InitCC == DownloadAtRest /\ RequestAtRest /\ InitCacheWorkers /\ JobsAtRest /\ AlgorithmsAtRest /\ GuiAtRest

SpecCacheConc == InitCC /\ [][NextCacheConc]_vars

\* lookup_hashes on batches around the limit, set_api_key free to run in
\* between the blocks of _request_json
NextLookup ==
    \/ set_api_key /\ UNCHANGED <<dlvars, cvars, jvars, avars, gvars>>
    \/ lookup_batch /\ UNCHANGED <<dlvars, cvars, jvars, avars, gvars>>
    \/ CheckKey /\ UNCHANGED <<dlvars, cvars, jvars, avars, gvars>>
    \/ BuildRequest /\ UNCHANGED <<dlvars, cvars, jvars, avars, gvars>>
    \/ SendRequest /\ UNCHANGED <<dlvars, cvars, jvars, avars, gvars>>

\* the operations that need no credential next to one that does, on a
\* client whose credential set_api_key may change at any time
NextPublic ==
    \/ set_api_key /\ UNCHANGED <<dlvars, cvars, jvars, avars, gvars>>
    \/ get_algorithms /\ UNCHANGED <<dlvars, cvars, jvars, avars, gvars>>
    \/ identify_hash /\ UNCHANGED <<dlvars, cvars, jvars, avars, gvars>>
    \/ get_conversion_rates /\ UNCHANGED <<dlvars, cvars, jvars, avars, gvars>>
    \/ get_balance /\ UNCHANGED <<dlvars, cvars, jvars, avars, gvars>>
    \/ stream_download /\ UNCHANGED <<dlvars, cvars, jvars, avars, gvars>>
    \/ CheckKey /\ UNCHANGED <<dlvars, cvars, jvars, avars, gvars>>
    \/ BuildRequest /\ UNCHANGED <<dlvars, cvars, jvars, avars, gvars>>
    \/ SendRequest /\ UNCHANGED <<dlvars, cvars, jvars, avars, gvars>>

InitPB == DownloadAtRest /\ InitRequest /\ CacheAtRest /\ JobsAtRest /\ AlgorithmsAtRest /\ GuiAtRest

SpecPublic == InitPB /\ [][NextPublic]_vars

InitLK == DownloadAtRest /\ InitRequest /\ CacheAtRest /\ JobsAtRest /\ AlgorithmsAtRest /\ GuiAtRest

SpecLookup == InitLK /\ [][NextLookup]_vars

NextAlgorithms ==
    \/ FetchAlgorithms /\ UNCHANGED <<dlvars, rqvars, cvars, jvars, gvars>>
    \/ BuildAlgorithms /\ UNCHANGED <<dlvars, rqvars, cvars, jvars, gvars>>
    \/ WriteAlgorithms /\ UNCHANGED <<dlvars, rqvars, cvars, jvars, gvars>>

InitAL == DownloadAtRest /\ RequestAtRest /\ CacheAtRest /\ JobsAtRest /\ InitAlgorithms /\ GuiAtRest

SpecAlgorithms == InitAL /\ [][NextAlgorithms]_vars

NextJobs ==
    \/ FetchJobs /\ UNCHANGED <<dlvars, rqvars, cvars, avars, gvars>>
    \/ FilterJobs /\ UNCHANGED <<dlvars, rqvars, cvars, avars, gvars>>
    \/ SortJobs /\ UNCHANGED <<dlvars, rqvars, cvars, avars, gvars>>

InitJB == DownloadAtRest /\ RequestAtRest /\ CacheAtRest /\ InitJobs /\ AlgorithmsAtRest /\ GuiAtRest

SpecJobs == InitJB /\ [][NextJobs]_vars

\* The GUI: the user types and clicks, the threads run, the main loop
\* runs what was handed to it.
NextGui ==
    \/ TypeKey /\ UNCHANGED <<dlvars, rqrest, cvars, jvars, avars>>
    \/ refresh_jobs /\ UNCHANGED <<dlvars, rqrest, cvars, jvars, avars>>
    \/ \E w \in Workers : RunWorker(w) /\ UNCHANGED <<dlvars, rqrest, cvars, jvars, avars>>
    \/ \E w \in Workers : ScheduleHandler(w) /\ UNCHANGED <<dlvars, rqrest, cvars, jvars, avars>>
    \/ \E w \in Workers : ScheduleFinally(w) /\ UNCHANGED <<dlvars, rqrest, cvars, jvars, avars>>
    \/ RunCallback /\ UNCHANGED <<dlvars, rqrest, cvars, jvars, avars>>

InitGU == DownloadAtRest /\ InitGui /\ CacheAtRest /\ JobsAtRest /\ AlgorithmsAtRest

\* A started thread runs to its end (every request of the client has a
\* timeout) and the main loop runs every callback handed to it.
GuiFairness ==
    /\ \A w \in Workers :
          WF_vars((RunWorker(w) \/ ScheduleHandler(w) \/ ScheduleFinally(w))
                  /\ UNCHANGED <<dlvars, rqrest, cvars, jvars, avars>>)
    /\ WF_vars(RunCallback /\ UNCHANGED <<dlvars, rqrest, cvars, jvars, avars>>)

SpecGui == InitGU /\ [][NextGui]_vars /\ GuiFairness

\* ======================================================================
\* Properties of download_left_lists (checked under SpecDownload)
\* ======================================================================
Finished == pc \in {"returned", "raised"}

\* positions of the log holding an event of the given kind for job i
At(kind, i) == {k \in DOMAIN log : log[k].ev = kind /\ log[k].i = i}

\* jobs whose download completed
Completed == {i \in 1..Len(jobs) : At("ok", i) # {}}

\* bytes of job i that reached the file in the first k events
WrittenUpTo(i, k) ==
    SumSeq([n \in 1..k |-> IF log[n].ev = "write" /\ log[n].i = i
                           THEN log[n].d ELSE 0])
Written(i) == WrittenUpTo(i, Len(log))

\* the content a completed job delivered
Content(i) == StreamBytes(i, 0, Written(i))

ExpectedFile ==
    Flatten([i \in 1..Len(jobs) |-> IF i \in Completed THEN Content(i) ELSE <<>>])

\* C1: when download_left_lists returns, the destination file holds exactly
\* the bytes of the successful jobs, concatenated in batch order, and no byte
\* of a failed job (stated here for the batches in which at least one job
\* succeeded, where the file has certainly been opened).
C1_FileIsSuccessfulJobsOnly ==
    (pc = "returned" /\ Completed # {}) =>
        (disk.exists /\ disk.data = ExpectedFile)

C3_NeverRaises == ~(pc = "raised" /\ jobs # <<>>)

\* the ids of the jobs that did not complete, in batch order
RECURSIVE IdsNotCompleted(_)
IdsNotCompleted(i) ==
    IF i > Len(jobs) THEN <<>>
    ELSE (IF i \in Completed THEN <<>> ELSE <<IntOf(Get(jobs[i], "id", "0"))>>)
         \o IdsNotCompleted(i + 1)

\* C4: the returned result accounts for every job exactly once: the total is
\* the sum of the bytes of the completed jobs, the failures list has one
\* entry per job that did not complete, in batch order, and completed jobs
\* plus failure entries make up the batch.
C4_ResultAccountsForEveryJob ==
    pc = "returned" =>
        /\ bytes_written = SumSeq([i \in 1..Len(jobs) |->
                                     IF i \in Completed THEN Written(i) ELSE 0])
        /\ [n \in 1..Len(failed) |-> failed[n][1]] = IdsNotCompleted(1)
        /\ Cardinality(Completed) + Len(failed) = Len(jobs)

\* C4 witness: a returned batch in which job 1 failed after writing a
\* byte and job 2 completed with bytes.
C4_Witness ==
    /\ pc = "returned"
    /\ Len(jobs) = 2
    /\ Completed = {2}
    /\ Written(1) > 0 /\ Written(2) > 0
    /\ Len(failed) = 1

Attempted(i) == At("get", i) # {} \/ At("fail", i) # {}

\* C5: a job without a left list is recorded as a 'No left list URL'
\* failure, causes no request and no file access, and every other job of the
\* batch is still processed.
C5_MissingLeftListIsolated ==
    (Finished /\ jobs # <<>>) =>
        \A i \in 1..Len(jobs) :
            UrlPath(jobs[i]) = "" =>
                /\ At("get", i) = {} /\ At("open", i) = {} /\ At("write", i) = {}
                /\ \E k \in At("fail", i) : log[k].m = "No left list URL"
                /\ \A j \in 1..Len(jobs) : Attempted(j)

\* C6: every request for a job after the first of the list is preceded by
\* the delay, and no delay precedes the first request the batch issues.
C6_DelayOnlyBetweenRequests ==
    \A k \in DOMAIN log :
        log[k].ev = "get" =>
            /\ log[k].i > 1 => (k > 1 /\ log[k - 1].ev = "sleep" /\ log[k - 1].i = log[k].i)
            /\ (\A j \in 1..(k - 1) : log[j].ev # "get") =>
                   (\A j \in 1..(k - 1) : log[j].ev # "sleep")

\* C7: with an empty job list the call fails with the 'no jobs selected'
\* error; nothing is requested and the destination is left as it was.
C7_EmptyListTouchesNothing ==
    (pc # "idle" /\ jobs = <<>>) =>
        /\ pc = "raised"
        /\ exc = "HashesApiError: No jobs were selected for download."
        /\ log = <<>>
        /\ disk \in InitialDisks

\* C7 witness: the call failed on an empty list next to an existing file.
C7_Witness == pc = "raised" /\ jobs = <<>> /\ disk.exists /\ disk.data # <<>>

\* C8: with a callback supplied, every chunk written in full is followed at
\* once by one callback carrying the job's position, the batch size and the
\* bytes written so far for that job; no other callback happens; within a
\* job the counts strictly increase, and the last one is the count added to
\* the total.
C8_ProgressAfterEveryChunk ==
    on_progress =>
        \A k \in DOMAIN log :
            /\ (log[k].ev = "write" /\ log[k].m = "full") =>
                   /\ k + 1 \in DOMAIN log
                   /\ log[k + 1].ev = "cb"
                   /\ log[k + 1].i = log[k].i
                   /\ log[k + 1].t = Len(jobs)
                   /\ log[k + 1].d = WrittenUpTo(log[k].i, k)
            /\ log[k].ev = "cb" =>
                   /\ k > 1 /\ log[k - 1].ev = "write" /\ log[k - 1].m = "full"
                   /\ log[k].i \in 1..Len(jobs)
                   /\ \A j \in 1..(k - 1) :
                          (log[j].ev = "cb" /\ log[j].i = log[k].i) => log[j].d < log[k].d
            /\ log[k].ev = "ok" =>
                   \A j \in At("cb", log[k].i) :
                       (\A j2 \in At("cb", log[k].i) : j2 <= j) => log[j].d = log[k].d

\* C8 witness: a job reported two chunks and then completed.
C8_Witness ==
    /\ on_progress
    /\ \E i \in Completed : Cardinality(At("cb", i)) = 2

\* ======================================================================
\* Properties of the transport (checked under SpecRequest)
\* ======================================================================
KeyRequired == "An API key is required for this action."

AllSpace(t) == \A n \in DOMAIN t : IsSpace(t[n])

\* C9: get_jobs, get_balance and lookup_hashes (with valid input) fail with
\* the 'API key required' error when the credential is empty, also when it
\* came from an empty or whitespace-only string, and send nothing.
C9_NoKeyNoRequest ==
    (/\ rpc = "done"
     /\ rargs.op \in {"get_jobs", "get_balance", "lookup_hashes"}
     /\ rargs.path # ""
     /\ (seen.key = <<>> \/ AllSpace(seen.raw))) =>
        /\ rerr = KeyRequired
        /\ Len(sent) = rargs.sent0

\* C9 witness: lookup_hashes was refused after a whitespace-only key.
C9_Witness ==
    /\ rpc = "done"
    /\ rargs.op = "lookup_hashes"
    /\ rargs.path = "/search"
    /\ seen.raw = <<" ", " ">>
    /\ rerr = KeyRequired

\* C10: an authenticated request carries the credential as query parameter
\* 'key' on GET and as body field 'key' otherwise, the request sent is the
\* one built, and the caller's params and data objects are as they were
\* passed.
C10_KeyGoesIntoCopies ==
    [][ /\ (rpc = "build" /\ rpc' = "send" /\ rargs.requires) =>
            LET rp == heap'[rpRef']
                rd == heap'[rdRef']
            IN /\ IF Upper(rargs.method) = "GET"
                  THEN /\ HasKey(rp, "key")
                       /\ Lookup(rp, "key") = Scalar(api_key)
                       /\ rd = rargs.data
                  ELSE /\ HasKey(rd, "key")
                       /\ Lookup(rd, "key") = Scalar(api_key)
                       /\ rp.items = rargs.params.items
               /\ heap'.P = rargs.params
               /\ heap'.D = rargs.data
        /\ (rpc = "send" /\ rpc' = "done") =>
            /\ sent'[Len(sent')].data = heap[rdRef]
            /\ Truthy(heap[rpRef]) => sent'[Len(sent')].params = heap[rpRef]
            /\ heap'.P = rargs.params
            /\ heap'.D = rargs.data
      ]_vars

\* C10 witness: an authenticated POST with a dict body was sent with the key
\* in the body, and an authenticated GET whose params already had a 'key'.
C10_Witness ==
    /\ rpc = "done"
    /\ rargs.requires
    /\ rargs.method = "POST"
    /\ rargs.data.kind = "dict"
    /\ rargs.params.kind = "dict"
    /\ sent # <<>>
    /\ HasKey(sent[Len(sent)].data, "key")
    /\ ~HasKey(heap.D, "key")

\* C11: a 2xx response whose body is JSON is rejected exactly when the body
\* is not an object or its 'success' member is the value false, with the
\* server's 'message' (or the generic text) as the error; every other object
\* is returned as it was received.
C11_RejectedIffNotObjectOrSuccessFalse ==
    (rpc = "done" /\ resp.how = "json") =>
        LET p == resp.payload
            refused == p.kind # "object" \/ <<"success", "false">> \in p.members
        IN /\ refused <=> rerr # "ok"
           /\ refused <=> rret = NoPayload
           /\ (refused /\ p.kind = "object") =>
                  rerr = (IF \E m \in p.members : m[1] = "message"
                          THEN "bad key" ELSE "API request failed.")
           /\ p.kind # "object" => rerr = "Unexpected API response format."
           /\ ~refused => rret = p

\* C11 witness: an object whose 'success' is 0 (falsy, but not false) came
\* back and was returned to the caller.
C11_Witness ==
    /\ rpc = "done"
    /\ resp.how = "json"
    /\ <<"success", "0">> \in resp.payload.members
    /\ rret = resp.payload
    /\ rerr = "ok"

\* ======================================================================
\* Properties of the conversion cache (SpecCache: one caller;
\* SpecCacheConc: two worker threads)
\* ======================================================================
Credits == <<"c", "r", "e", "d", "i", "t", "s">>

\* the call of thread t went through get_conversion_rates and has ended
RatesCallDone(t) == th[t].pc = "done" /\ th[t].now > 0

\* C12: when the cache holds a table that a successful fetch returned, a
\* call made less than cache_seconds after that fetch returns that very
\* object and sends nothing; a call made later sends exactly one request.
C12_FreshTableServedWithoutFetch ==
    (RatesCallDone(1) /\ th[1].prev.id # 0) =>
        IF th[1].now - born[th[1].prev.id] < th[1].ttl
        THEN th[1].ret = th[1].prev /\ th[1].reqs = 0
        ELSE th[1].reqs = 1

\* C13: the cached table and the cached timestamp belong to the same fetch
\* (stated for the states in which no thread stands between its two
\* stores), and a caller served from the cache got the table of the fetch
\* whose timestamp it tested.
C13_TableAndTimeOfSameFetch ==
    /\ ((\A t \in Threads : th[t].pc # "stamp") /\ conv_cache.id # 0) =>
           conv_at = born[conv_cache.id]
    /\ \A t \in Threads :
           (RatesCallDone(t) /\ th[t].reqs = 0 /\ th[t].ret.id # 0) =>
               th[t].atread = born[th[t].ret.id]

\* C14: a table returned without a remote fetch was stored by a fetch that
\* started less than cache_seconds before the call.
C14_NeverServedStale ==
    (RatesCallDone(1) /\ th[1].reqs = 0 /\ th[1].ret.id # 0) =>
        /\ th[1].now - born[th[1].ret.id] < th[1].ttl
        /\ th[1].now >= born[th[1].ret.id]

\* C14 witness: a table fetched 40 s earlier was served from the cache.
C14_Witness ==
    /\ RatesCallDone(1)
    /\ th[1].reqs = 0
    /\ th[1].ret.id # 0
    /\ th[1].now - born[th[1].ret.id] = 40

\* C15: convert_to_usd never raises; it always returns a string.
C15_ConvertNeverRaises ==
    (th[1].pc = "done" /\ th[1].op = "convert") =>
        (th[1].err = "" /\ th[1].res # <<>>)

\* C16: for 'credits' in any letter case convert_to_usd returns 'N/A',
\* whatever the cache holds and without touching it; for a currency that the
\* rate table it obtained does not list it returns '$0.00'.
C16_CreditsAndUnknownCurrency ==
    (th[1].pc = "done" /\ th[1].op = "convert") =>
        /\ Lower(th[1].currency) = Credits =>
               /\ th[1].res = <<"N", "/", "A">>
               /\ th[1].err = ""
               /\ th[1].reqs = 0
        /\ (/\ Lower(th[1].currency) # Credits
            /\ th[1].ret.id # 0
            /\ \A m \in th[1].ret.payload.rates : m[1] # ToUpper(th[1].currency)) =>
               (th[1].res = <<"$", 0, 0>> /\ th[1].err = "")

\* C16 witness: 'Credits' was converted while the cache held a table that
\* lists a CREDITS rate.
C16_Witness ==
    /\ th[1].pc = "done"
    /\ th[1].op = "convert"
    /\ th[1].currency = <<"C", "r", "e", "d", "i", "t", "s">>
    /\ \E m \in conv_cache.payload.rates : m[1] = ToUpper(Credits)
    /\ th[1].res = <<"N", "/", "A">>

\* ======================================================================
\* Properties of get_jobs (checked under SpecJobs)
\* ======================================================================
\* get_jobs returned a list
Listed == jpc = "done" /\ jerr = ""

\* this call and the one before it returned, one ascending, one descending,
\* for the same server list, sort key and filters
BothDirections == Listed /\ jlast.has /\ jlast.err = "" /\ jlast.reverse # jrev
AscendingResult == IF jrev THEN jlast.ret ELSE jret
DescendingResult == IF jrev THEN jret ELSE jlast.ret

HasTie(l) ==
    \E i, j \in 1..Len(l) : i # j /\ KeyOf(l[i], jargs.sortby) = KeyOf(l[j], jargs.sortby)

\* C17 as stated: the ascending result, reversed, equals the descending
\* result, for every job list including those with equal sort keys.
C17_ReversedAscendingIsDescending ==
    BothDirections => Reverse(AscendingResult) = DescendingResult

\* C17 amended: the ascending result reversed and the descending result
\* list the same sort keys in the same order, and they are the same list
\* when no two jobs have equal sort keys (jobs of equal key keep their
\* fetched order in both directions, so with ties the two lists differ);
\* a call fails on its sort in one direction exactly if it does in the other.
C17_ReversedAscendingIsDescendingUpToTies ==
    /\ BothDirections =>
          /\ Keys(Reverse(AscendingResult), jargs.sortby)
               = Keys(DescendingResult, jargs.sortby)
          /\ ~HasTie(AscendingResult) => Reverse(AscendingResult) = DescendingResult
    /\ (jpc = "done" /\ jlast.has /\ jlast.reverse # jrev
        /\ jerr # "HashesApiError" /\ jlast.err # "HashesApiError")
          => (jerr = "TypeError" <=> jlast.err = "TypeError")

C17_Witness ==
    /\ BothDirections
    /\ Len(jret) = 3
    /\ HasTie(jret)
    /\ \E i, j \in 1..Len(jret) : KeyOf(jret[i], jargs.sortby) # KeyOf(jret[j], jargs.sortby)

PositionIn(l, row) == CHOOSE n \in 1..Len(l) : l[n] = row

\* C18: for both values of the reverse flag, the returned list is a
\* permutation of the filtered list, and two jobs of equal sort key are in
\* it in the order they have in the fetched list.
C18_StablePermutation ==
    Listed =>
        /\ Len(jret) = Len(jlist)
        /\ {jret[n] : n \in 1..Len(jret)} = {jlist[n] : n \in 1..Len(jlist)}
        /\ \A i, j \in 1..Len(jret) :
              (i < j /\ KeyOf(jret[i], jargs.sortby) = KeyOf(jret[j], jargs.sortby))
                  => PositionIn(jfetched, jret[i]) < PositionIn(jfetched, jret[j])

C18_Witness ==
    /\ Listed /\ jrev
    /\ Len(jret) = 3
    /\ HasTie(jret)
    /\ jret # jlist

\* the value of a row in the sort column, and whether it is a number or a
\* text that int() or float() accepts
SortCell(row) == Get(row, jargs.sortby, PNone)
NumericLooking(v) == v.t = "num" \/ (v.t = "str" /\ (IntParses(v.s) \/ FloatParses(v.s)))
NumberOf(v) == IF v.t = "num" THEN v.n
               ELSE IF IntParses(v.s) THEN IntValue(v.s) ELSE FloatValue(v.s)

\* C19: when every value of the sort column is a number or a
\* numeric-looking string, get_jobs returns the jobs in numeric order of
\* those values (non-decreasing when ascending, non-increasing when
\* descending), so "10" comes after "9" in ascending order.
C19_NumericOrder ==
    (/\ jpc = "done" /\ jerr # "HashesApiError"
     /\ \A n \in 1..Len(jlist) : NumericLooking(SortCell(jlist[n])))
    => /\ jerr = ""
       /\ \A i, j \in 1..Len(jret) :
             i < j => IF jrev
                      THEN NumberOf(SortCell(jret[i])) >= NumberOf(SortCell(jret[j]))
                      ELSE NumberOf(SortCell(jret[i])) <= NumberOf(SortCell(jret[j]))

C19_Witness ==
    /\ Listed /\ ~jrev /\ jargs.sortby = "createdAt"
    /\ \E i, j \in 1..Len(jret) :
          /\ i < j
          /\ SortCell(jret[i]) = PStr(<<"9">>)
          /\ SortCell(jret[j]) = PStr(<<"1", "0">>)
          /\ PositionIn(jfetched, jret[j]) < PositionIn(jfetched, jret[i])

\* C20: whatever the sort column holds (absent values, numbers,
\* numeric-looking strings, other text), a get_jobs call whose request
\* succeeded returns the filtered jobs; it does not fail on its sort.
C20_MixedColumnSorted ==
    (jpc = "done" /\ jerr # "HashesApiError")
        => jerr = "" /\ Len(jret) = Len(jlist)

\* a job passes a given filter when the upper-cased text of its currency
\* (the text of its algorithm id) is a member of the set; a filter that
\* was not given passes every job
PassesGiven(job) ==
    /\ jargs.currency_filter.given =>
          ToUpper(StrOf(Get(job, "currency", PStr(<<>>)))) \in jargs.currency_filter.set
    /\ jargs.algorithm_filter.given =>
          StrOf(Get(job, "algorithmId", PStr(<<>>))) \in jargs.algorithm_filter.set

\* C21: the jobs kept by the filters are exactly the fetched jobs that pass
\* every given filter, in fetched order, for every given set including the
\* empty set; a returned list holds exactly those jobs.
C21_ExactlyTheJobsPassingGivenFilters ==
    /\ jpc \in {"filtered", "done"} /\ jerr # "HashesApiError" =>
          jlist = SelectSeq(jfetched, PassesGiven)
    /\ Listed =>
          {jret[n] : n \in 1..Len(jret)}
              = {jfetched[n] : n \in {k \in 1..Len(jfetched) : PassesGiven(jfetched[k])}}

\* ======================================================================
\* Properties of lookup_hashes (SpecLookup: batches around the limit;
\* SpecRequest: the small inputs)
\* ======================================================================
EmptyInput == "Please provide at least one hash to search."
BatchTooLarge == "The API allows up to 250 hashes per lookup request."

\* a lookup_hashes call has ended
LookupDone == rargs.op = "lookup_hashes" /\ rpc = "done"

\* the distinct trimmed non-empty entries of an input
TrimmedEntries(input) == {Strip(input[n]) : n \in 1..Len(input)} \ {<<>>}

\* an input of k distinct non-empty hash strings
DistinctBatch(input, k) ==
    /\ Len(input) = k
    /\ Cardinality({input[n] : n \in 1..Len(input)}) = k
    /\ \A n \in 1..Len(input) : input[n] # <<>> /\ Strip(input[n]) = input[n]

\* C22: lookup_hashes given 251 distinct non-empty hashes fails with the
\* batch-too-large error and sends nothing; given 250 it passes validation
\* and, the credential check passed, issues exactly one POST to /search
\* whose 'hashes[]' carries all 250 values.
C22_LimitIs250 ==
    /\ (LookupDone /\ DistinctBatch(rargs.input, 251)) =>
          (rerr = BatchTooLarge /\ Len(sent) = rargs.sent0)
    /\ (LookupDone /\ DistinctBatch(rargs.input, 250)) =>
          /\ rerr \notin {BatchTooLarge, EmptyInput}
          /\ rerr # KeyRequired =>
                /\ Len(sent) = rargs.sent0 + 1
                /\ sent[Len(sent)].method = "POST"
                /\ sent[Len(sent)].path = "/search"
                /\ Lookup(sent[Len(sent)].data, "hashes[]") = ListVal(rargs.input)

\* C22 witness: a lookup of 250 hashes was sent and answered.
C22_Witness ==
    /\ LookupDone
    /\ DistinctBatch(rargs.input, 250)
    /\ rerr = "ok"
    /\ Len(sent) = rargs.sent0 + 1

\* C23: lookup_hashes validates the set of distinct trimmed entries: an
\* input with at least one and at most 250 distinct trimmed non-empty entries
\* passes validation however many raw entries it has, and the
\* batch-too-large error is raised only for more than 250 distinct entries.
C23_ValidatesDistinctEntries ==
    LookupDone =>
        LET distinct == TrimmedEntries(rargs.input) IN
        /\ (distinct # {} /\ Cardinality(distinct) <= 250) =>
               rerr \notin {BatchTooLarge, EmptyInput}
        /\ rerr = BatchTooLarge => Cardinality(distinct) > 250

\* C24: lookup_hashes given no entry, or only empty and white-space entries,
\* fails with the empty-input error, with or without a credential, and
\* sends nothing.
C24_EmptyInputBeforeKeyCheck ==
    (LookupDone /\ TrimmedEntries(rargs.input) = {}) =>
        (rerr = EmptyInput /\ Len(sent) = rargs.sent0)

\* C24 witness: an input of white space was refused on a client without a
\* credential.
C24_Witness ==
    /\ LookupDone
    /\ rargs.input # <<>>
    /\ TrimmedEntries(rargs.input) = {}
    /\ api_key = <<>>
    /\ rerr = EmptyInput

\* ======================================================================
\* Properties of fetch_and_update_algorithms_file (SpecAlgorithms)
\* ======================================================================
\* C25: fetch_and_update_algorithms_file never lets an error reach its
\* caller: whatever the request, the entries of the list and the file write
\* do, it returns; it returns (True, mapping) only when the file was
\* written, and (False, {}) on every failure.
C25_NeverPropagates ==
    apc = "done" =>
        /\ aerr = ""
        /\ aret.returned
        /\ aret.ok => (afile.state = "written" /\ aret.mapping = algorithms)
        /\ ~aret.ok => aret.mapping = <<>>
        /\ afile.state # "written" => ~aret.ok

\* the ids of the written table, in written order
WrittenIds == [n \in 1..Len(afile.table) |-> afile.table[n][1]]

\* C26: the written table lists the all-digit ids first, ascending by
\* numeric value whatever their size, and after them the other ids in
\* lexical order; it holds exactly the ids of the server's list, so that
\* the written order is fixed by the set of ids.
C26_NumericFirstThenLexical ==
    afile.state = "written" =>
        /\ \A i, j \in 1..Len(WrittenIds) :
              i < j =>
                /\ IsDigits(WrittenIds[j]) =>
                      /\ IsDigits(WrittenIds[i])
                      /\ NatOf(WrittenIds[i]) <= NatOf(WrittenIds[j])
                /\ (~IsDigits(WrittenIds[i]) /\ ~IsDigits(WrittenIds[j])) =>
                      TextLess(WrittenIds[i], WrittenIds[j])
        /\ {WrittenIds[n] : n \in 1..Len(WrittenIds)}
             = {StrOf(aresp.payload.list[n].id) : n \in 1..Len(aresp.payload.list)}

\* ======================================================================
\* Properties of the credential (SpecRequest: the race with set_api_key;
\* SpecPublic: the operations that need no credential)
\* ======================================================================
\* the 'key' a sent request carries
CarriedKey(req) == IF req.method = "GET" THEN Lookup(req.params, "key")
                   ELSE Lookup(req.data, "key")

\* C27: with set_api_key running between the blocks of an authenticated
\* request, the request sent carries the credential that passed the check
\* of line 199, which is not empty.
C27_CheckedKeyIsInjectedKey ==
    (rpc = "done" /\ rargs.requires /\ Len(sent) = rargs.sent0 + 1) =>
        /\ CarriedKey(sent[Len(sent)]) = Scalar(seen.key)
        /\ CarriedKey(sent[Len(sent)]) # Scalar(<<>>)

PublicPaths == {"/algorithms", "/identifier", "/conversion", "/a", "/b"}

\* C28: no request to /algorithms, /identifier or /conversion and no
\* left-list download carries a 'key', whatever the credential is; a request
\* to /balance does.
C28_KeyOnlyOnAuthenticatedRequests ==
    \A n \in DOMAIN sent :
        /\ sent[n].path \in PublicPaths =>
              (~HasKey(sent[n].params, "key") /\ ~HasKey(sent[n].data, "key"))
        /\ sent[n].path = "/balance" => HasKey(sent[n].params, "key")

\* C28 witness: with a credential set, /identifier was asked and answered.
C28_Witness ==
    /\ rpc = "done"
    /\ rargs.op = "identify_hash"
    /\ api_key # <<>>
    /\ seen.key # <<>>
    /\ rerr = "ok"
    /\ Len(sent) = rargs.sent0 + 1
    /\ sent[Len(sent)].path = "/identifier"

\* ======================================================================
\* Failure of the /conversion fetch (SpecCache)
\* ======================================================================
\* the timestamp that belongs to a cached object
TimeOf(o) == IF o.id = 0 THEN 0 ELSE born[o.id]

\* C29: when the /conversion fetch fails, by transport, by invalid JSON or
\* by rejection, the caller gets the error after that one request and the
\* cached table and timestamp are those the call found; no rejected body
\* ever becomes the cached table; and a call whose fetch succeeds replaces
\* both the table and the timestamp.
C29_FailedFetchLeavesCache ==
    /\ (RatesCallDone(1) /\ th[1].err \in {"Request failed",
                                            "Received invalid JSON from hashes.com.",
                                            "API request failed.",
                                            "Unexpected API response format."}) =>
          /\ th[1].reqs = 1
          /\ th[1].ret = NoObj /\ th[1].res = <<>>
          /\ conv_cache = th[1].prev
          /\ conv_at = TimeOf(th[1].prev)
    /\ conv_cache.id # 0 =>
          /\ conv_cache.payload.kind = "object"
          /\ <<"success", "false">> \notin conv_cache.payload.members
    /\ (RatesCallDone(1) /\ th[1].reqs = 1 /\ th[1].ret.id # 0) =>
          /\ conv_cache = th[1].ret
          /\ conv_cache.id = nreq
          /\ conv_at = th[1].now

\* C29 witness: the cached table had expired, the fetch for a new one
\* failed, and the old table and its timestamp are still cached.
C29_Witness ==
    /\ RatesCallDone(1)
    /\ th[1].err = "Received invalid JSON from hashes.com."
    /\ th[1].reqs = 1
    /\ th[1].prev.id = 1
    /\ th[1].prev.payload.rates # {}
    /\ conv_cache = th[1].prev
    /\ conv_at = born[1]

\* ======================================================================
\* Properties of refresh_jobs (checked under SpecGui)
\* ======================================================================
\* a thread between its start and the end of runner()
InFlight == {w \in Workers : runner[w] \notin {"unborn", "ended"}}

\* worker() of thread w is over and the on_finally of w has not run yet
Ending(w) ==
    /\ runner[w] \in {"else", "except", "finally", "ended"}
    /\ \A i \in 1 .. Len(ran) : ran[i] # Callback("on_finally", w)

HandlerOf(cb) == cb.fn \in {"on_success", "_handle_task_error"}

\* the main loop has just run the on_finally of thread w, after the
\* success or error handler of w
Released(w) ==
    /\ ran # <<>> /\ ran[Len(ran)] = Callback("on_finally", w)
    /\ \E i \in 1 .. Len(ran) - 1 : ran[i].w = w /\ HandlerOf(ran[i])
    /\ ~jobs_loading

\* a call of refresh_jobs made while jobs_loading is true leaves the GUI
\* and the client as they were
IgnoredWhileLoading ==
    (nrefresh' # nrefresh /\ jobs_loading) =>
        UNCHANGED <<api_key_var, jobs_loading, runner, tkq, status,
                    jobs_cache, ran, api_key, raw_key>>

\* C30: at most one 'Refresh jobs' thread is in flight, and jobs_loading
\* is true while one is; refresh_jobs called while jobs_loading is true
\* starts no thread and changes nothing; every on_finally handed to the
\* main loop follows the handler of the same thread; and once worker()
\* of a thread is over, by a result or by an exception, the main loop
\* eventually runs that thread's on_finally, after its handler, which
\* leaves jobs_loading false.
C30_OneWorkerThenLoadingResets ==
    /\ [](/\ Cardinality(InFlight) <= 1
          /\ InFlight # {} => jobs_loading
          /\ \A i \in 1 .. Len(tkq) :
                tkq[i].fn = "on_finally" =>
                    \/ \E j \in 1 .. i - 1 :
                          tkq[j].w = tkq[i].w /\ HandlerOf(tkq[j])
                    \/ \E j \in 1 .. Len(ran) :
                          ran[j].w = tkq[i].w /\ HandlerOf(ran[j]))
    /\ [][IgnoredWhileLoading]_vars
    /\ \A w \in Workers : Ending(w) ~> Released(w)

\* thread 1 ended by an exception and was released, the second call came
\* while jobs_loading was true and started nothing, the third call
\* started thread 3
C30_Witness ==
    /\ nrefresh = 3 /\ runner[1] = "ended" /\ runner[2] = "unborn"
    /\ runner[3] = "work" /\ jobs_loading
    /\ Len(ran) = 2 /\ ran[1] = Callback("_handle_task_error", 1)
    /\ ran[2] = Callback("on_finally", 1)

====
